---- MODULE Spec2Model ----
(***************************************************************************)
(* Admission core of the slot booking system: BookingService.createBooking *)
(* and cancelBooking against the PostgreSQL store (row lock, serializable  *)
(* transaction, the two unique indexes on "Booking"), the BullMQ booking   *)
(* queue with its single worker, and the mapping of thrown errors to HTTP  *)
(* status codes.                                                           *)
(*                                                                         *)
(* Time is counted in ticks, TicksPerHour ticks to the hour.  A request    *)
(* occupies one of MaxConc call records from its arrival until its         *)
(* response; a record is reused by a later request.                        *)
(***************************************************************************)
EXTENDS Integers, Sequences, FiniteSets, TLC

VARIABLES now, slots, bookings, nextId, lock, calls, ncalls, mode, queue,
          active, nEnqueued, nStarted, pre, layers,
          rlNow, redis, reqs, last, nreqs, hist, shadow, nfail,
          slotRows, creates, ncreates

\* The booking side and the rate limiter side of the state
store == <<now, slots, bookings, nextId, lock, calls, ncalls, mode, queue,
           active, nEnqueued, nStarted, pre, layers>>
limiter == <<rlNow, redis, reqs, last, nreqs, hist, shadow, nfail>>

\* The slot creation side: the "Slot" rows with their time ranges and the
\* createSlot calls
creation == <<slotRows, creates, ncreates>>

vars == <<store, limiter, creation>>

---------------------------------------------------------------------------
(* Bounds of the model *)

MaxConc == 2
MaxCalls == 4
MaxTime == 3
TicksPerHour == 2
NSlotIds == 8
MaxBookings == 7
MaxRlConc == 2
MaxRlReqs == 12
RlStep == 60
MaxRlTime == 60
MaxRlFail == 1
MaxCreators == 2
MaxCreates == 2
MaxSlotTime == 3

(* Program constants *)

MAX_ACTIVE_BOOKINGS == 5
CANCELLATION_WINDOW_HOURS == 1

\* bookingRateLimiter: 10 requests per window of one minute
maxRequests == 10
windowMs == 60 * 1000
windowSeconds == (windowMs + 999) \div 1000

WorkerConcurrencyMut == MaxConc
WorkerConcurrency == 1

---------------------------------------------------------------------------
(* Rows of the store *)

Calls == 1..MaxConc
SlotIds == 1..NSlotIds
BookingIds == 1..MaxBookings

\* The layers of the defence in depth against double booking: the status
\* check of createBooking, the row lock of findByIdForUpdate, the unique
\* indexes on "Booking"("slotId").  The program has all three in place.
Layers == {"check", "lock", "index"}

NoSlot == [hostId |-> 0, startTime |-> 0, status |-> "NONE"]
NoBooking == [id |-> 0, slotId |-> 0, userId |-> 0, status |-> "NONE"]

FarStart == 2 * TicksPerHour + 2

\* Slot table of the concurrency runs: two slots of host 1, as in the
\* concurrency tests.
RaceTable ==
  [s \in SlotIds |->
     IF s \in {1, 2}
       THEN [hostId |-> 1, startTime |-> 2 * TicksPerHour, status |-> "AVAILABLE"]
       ELSE NoSlot]

\* Slot table of the sequential runs: slot 1 of host 6, slots 2..4 of hosts
\* 3..5, slot 5 of host 2, slot 6 of host 7, slot 7 of host 3; slot 5 starts
\* after one tick, slot 6 exactly CANCELLATION_WINDOW_HOURS after time 0.
SeqTable ==
  [s \in SlotIds |->
     IF s = 1 THEN [hostId |-> 6, startTime |-> FarStart, status |-> "AVAILABLE"]
     ELSE IF s \in 2..4 THEN [hostId |-> s + 1, startTime |-> FarStart, status |-> "AVAILABLE"]
     ELSE IF s = 5 THEN [hostId |-> 2, startTime |-> 1, status |-> "AVAILABLE"]
     ELSE IF s = 6 THEN [hostId |-> 7, startTime |-> CANCELLATION_WINDOW_HOURS * TicksPerHour,
                         status |-> "AVAILABLE"]
     ELSE IF s = 7 THEN [hostId |-> 3, startTime |-> FarStart, status |-> "AVAILABLE"]
     ELSE NoSlot]

\* Slot table of the same-user runs: slots 1..4 of hosts 2..5, slot 5 of host
\* 6, slots 6 and 7 of host 7, all far in the future.
UserTable ==
  [s \in SlotIds |->
     IF s \in 1..5 THEN [hostId |-> s + 1, startTime |-> FarStart, status |-> "AVAILABLE"]
     ELSE IF s \in {6, 7} THEN [hostId |-> 7, startTime |-> FarStart, status |-> "AVAILABLE"]
     ELSE NoSlot]

\* A slot row that exists.  A row removed by SlotRepository.delete keeps its
\* host and start time under the mark "DELETED": a transaction whose snapshot
\* is older than the removal still reads the row.
Present(row) == row # NoSlot /\ row.status # "DELETED"

Row(rows, id) ==
  IF \E b \in rows : b.id = id THEN CHOOSE b \in rows : b.id = id ELSE NoBooking

Confirmed(rows, s) == {b \in rows : b.slotId = s /\ b.status = "CONFIRMED"}

---------------------------------------------------------------------------
(* Repositories and storage constraints *)

\* BookingRepository.countActiveBookings: CONFIRMED bookings of the user on
\* slots that start after t.
countActiveBookings(userId, rows, tbl, t) ==
  Cardinality({b \in rows : /\ b.userId = userId
                            /\ b.status = "CONFIRMED"
                            /\ tbl[b.slotId].startTime > t})

\* BookingRepository.countActiveBookingsWithHost: CONFIRMED bookings of the
\* user on slots of the host.
countActiveBookingsWithHost(userId, hostId, rows, tbl) ==
  Cardinality({b \in rows : /\ b.userId = userId
                            /\ b.status = "CONFIRMED"
                            /\ tbl[b.slotId].hostId = hostId})

bookingUpdateStatusToggle(rows, bk, st) ==
  (rows \ {bk}) \cup {[bk EXCEPT !.status = IF @ = st THEN "CONFIRMED" ELSE st]}

\* bookingRepository.updateStatus(id, status, tx): the row with that id gets
\* the status, nothing else of it changes.
bookingUpdateStatus(rows, bk, st) == (rows \ {bk}) \cup {[bk EXCEPT !.status = st]}

SlotIdKeyDropped(rows, s) == FALSE

\* CREATE UNIQUE INDEX "Booking_slotId_key" ON "Booking"("slotId")
Booking_slotId_key(rows, s) == \E b \in rows : b.slotId = s

\* CREATE UNIQUE INDEX "unique_confirmed_booking_per_slot" ... WHERE status = 'CONFIRMED'
unique_confirmed_booking_per_slot(rows, s) ==
  \E b \in rows : b.slotId = s /\ b.status = "CONFIRMED"

NoUniqueIndex(rows, s) == FALSE

\* The insert of a CONFIRMED row for slot s violates a unique index.
UniqueViolation(rows, s) ==
  Booking_slotId_key(rows, s) \/ unique_confirmed_booking_per_slot(rows, s)

\* slotRepository.updateStatus(id, status, tx): the committed table while the
\* transaction that issued the update is still open.
updateStatusNoTx(tbl, s, st) == [tbl EXCEPT ![s].status = st]

updateStatus(tbl, s, st) == tbl

---------------------------------------------------------------------------
(* BookingService.createBooking, checks 2 to 7 *)

ValidateHostFirst(userId, slot, rows, tbl, t) ==
  IF slot = NoSlot THEN "NOT_FOUND"
  ELSE IF slot.hostId = userId THEN "OWN_SLOT"
  ELSE IF slot.status # "AVAILABLE" THEN "SLOT_UNAVAILABLE"
  ELSE IF slot.startTime <= t THEN "SLOT_IN_PAST"
  ELSE IF countActiveBookings(userId, rows, tbl, t) >= MAX_ACTIVE_BOOKINGS THEN "MAX_ACTIVE"
  ELSE IF countActiveBookingsWithHost(userId, slot.hostId, rows, tbl) > 0 THEN "DUP_HOST"
  ELSE "OK"

ValidateOffByOne(userId, slot, rows, tbl, t) ==
  IF slot = NoSlot THEN "NOT_FOUND"
  ELSE IF slot.status # "AVAILABLE" THEN "SLOT_UNAVAILABLE"
  ELSE IF slot.startTime <= t THEN "SLOT_IN_PAST"
  ELSE IF slot.hostId = userId THEN "OWN_SLOT"
  ELSE IF countActiveBookings(userId, rows, tbl, t) > MAX_ACTIVE_BOOKINGS THEN "MAX_ACTIVE"
  ELSE IF countActiveBookingsWithHost(userId, slot.hostId, rows, tbl) > 0 THEN "DUP_HOST"
  ELSE "OK"

ValidateStartNow(userId, slot, rows, tbl, t) ==
  IF slot = NoSlot THEN "NOT_FOUND"
  ELSE IF slot.status # "AVAILABLE" THEN "SLOT_UNAVAILABLE"
  ELSE IF slot.startTime < t THEN "SLOT_IN_PAST"
  ELSE IF slot.hostId = userId THEN "OWN_SLOT"
  ELSE IF countActiveBookings(userId, rows, tbl, t) >= MAX_ACTIVE_BOOKINGS THEN "MAX_ACTIVE"
  ELSE IF countActiveBookingsWithHost(userId, slot.hostId, rows, tbl) > 0 THEN "DUP_HOST"
  ELSE "OK"

ValidateNoHostCheck(userId, slot, rows, tbl, t) ==
  IF slot = NoSlot THEN "NOT_FOUND"
  ELSE IF slot.status # "AVAILABLE" THEN "SLOT_UNAVAILABLE"
  ELSE IF slot.startTime <= t THEN "SLOT_IN_PAST"
  ELSE IF countActiveBookings(userId, rows, tbl, t) >= MAX_ACTIVE_BOOKINGS THEN "MAX_ACTIVE"
  ELSE IF countActiveBookingsWithHost(userId, slot.hostId, rows, tbl) > 0 THEN "DUP_HOST"
  ELSE "OK"

Validate(userId, slot, rows, tbl, t) ==
  IF slot = NoSlot THEN "NOT_FOUND"
  ELSE IF slot.status # "AVAILABLE" THEN "SLOT_UNAVAILABLE"
  ELSE IF slot.startTime <= t THEN "SLOT_IN_PAST"
  ELSE IF slot.hostId = userId THEN "OWN_SLOT"
  ELSE IF countActiveBookings(userId, rows, tbl, t) >= MAX_ACTIVE_BOOKINGS THEN "MAX_ACTIVE"
  ELSE IF countActiveBookingsWithHost(userId, slot.hostId, rows, tbl) > 0 THEN "DUP_HOST"
  ELSE "OK"

ValidateCancelStatusFirst(userId, booking, tbl, t) ==
  IF booking = NoBooking THEN "BOOKING_NOT_FOUND"
  ELSE IF booking.status = "CANCELLED" THEN "ALREADY_CANCELLED"
  ELSE IF booking.userId # userId THEN "FORBIDDEN"
  ELSE IF tbl[booking.slotId].startTime - t < CANCELLATION_WINDOW_HOURS * TicksPerHour
    THEN "TOO_LATE"
  ELSE "OK"

\* BookingService.cancelBooking, checks before the transaction
ValidateCancel(userId, booking, tbl, t) ==
  IF booking = NoBooking THEN "BOOKING_NOT_FOUND"
  ELSE IF booking.userId # userId THEN "FORBIDDEN"
  ELSE IF booking.status = "CANCELLED" THEN "ALREADY_CANCELLED"
  ELSE IF tbl[booking.slotId].startTime - t < CANCELLATION_WINDOW_HOURS * TicksPerHour
    THEN "TOO_LATE"
  ELSE "OK"

---------------------------------------------------------------------------
(* Errors and their HTTP status *)

\* AppError subclasses: statusCode
AppErrorStatus(r) ==
  CASE r \in {"NOT_FOUND", "BOOKING_NOT_FOUND"} -> 404
    [] r \in {"SLOT_UNAVAILABLE", "MAX_ACTIVE", "DUP_HOST", "ALREADY_CANCELLED", "SLOT_BOOKED",
               "OVERLAP"} -> 409
    [] r \in {"SLOT_IN_PAST", "OWN_SLOT", "TOO_LATE", "BAD_RANGE", "START_IN_PAST"} -> 400
    [] r \in {"FORBIDDEN", "NOT_OWNER", "NOT_HOST"} -> 403
    [] OTHER -> 0

IsAppError(r) == AppErrorStatus(r) # 0

\* errorHandler: status of the response for a thrown error
errorHandler(r) ==
  IF IsAppError(r) THEN AppErrorStatus(r)
  ELSE IF r \in {"P2002", "P2034", "P2010_40001", "P2010_slot_no_overlap"} THEN 409
  ELSE IF r = "P2025" THEN 404
  ELSE 500

\* processBookingJob followed by the queue branch of
\* BookingController.createBooking: status of the response for a job result
processBookingJob(r) ==
  IF r = "OK" THEN 201
  ELSE IF IsAppError(r) THEN AppErrorStatus(r)
  ELSE 500

\* direct branch of BookingController.createBooking / cancelBooking
ControllerStatus(kind, r) ==
  IF r = "OK" THEN (IF kind = "book" THEN 201 ELSE 200) ELSE errorHandler(r)

---------------------------------------------------------------------------
(* Call records *)

IdleCall ==
  [kind |-> "none", userId |-> 0, target |-> 0, pc |-> "idle",
   slot |-> NoSlot, snap |-> {}, stale |-> FALSE,
   txSlot |-> FALSE, txBooking |-> FALSE,
   elig |-> FALSE, at |-> 0, passed |-> FALSE, cnt |-> 0,
   result |-> "", resp |-> 0, bookingId |-> 0, job |-> 0, runs |-> 0]

Free(c) == calls[c].pc \in {"idle", "done"}

\* A request takes the lowest free call record.
CanStart(c) ==
  /\ Free(c)
  /\ ncalls < MaxCalls
  /\ \A d \in Calls : d < c => ~Free(d)

Sequential == \A d \in Calls : Free(d)

\* States of a call whose admission transaction is open
InTx == {"waiting", "locked", "updated", "inserted"}

\* A book request; elig records whether the committed store would admit it
\* at the moment it is issued.
NewBook(u, s) ==
  [IdleCall EXCEPT !.kind = "book", !.userId = u, !.target = s,
                   !.elig = (Validate(u, slots[s], bookings, slots, now) = "OK")]

Release(c) == [s \in SlotIds |-> IF lock[s] = c THEN 0 ELSE lock[s]]

\* A committed write of slot row s: every serializable transaction that took
\* its snapshot before and still waits for the row lock, or has read the row
\* without locking it, has a stale snapshot.
MarkStale(cs, s) ==
  [d \in Calls |->
     IF cs[d].kind = "book" /\ cs[d].pc \in {"waiting", "read"} /\ cs[d].target = s
       THEN [cs[d] EXCEPT !.stale = TRUE]
       ELSE cs[d]]

\* SlotRepository.findByIdForUpdate as the first statement of the
\* transaction: the snapshot is taken, then the row is locked or the
\* statement waits for the lock; a missing row is not locked.  runs counts
\* the admission transactions opened for the request.
findByIdForUpdate(cr, s) ==
  IF ~Present(slots[s])
    THEN [cr EXCEPT !.pc = "locked", !.slot = NoSlot, !.snap = bookings, !.runs = @ + 1]
  ELSE IF lock[s] = 0
    THEN [cr EXCEPT !.pc = "locked", !.slot = slots[s], !.snap = bookings, !.runs = @ + 1]
  ELSE [cr EXCEPT !.pc = "waiting", !.snap = bookings, !.runs = @ + 1]

LockAfterFindTable(c, s) ==
  IF Present(slots[s]) /\ lock[s] = 0 THEN [x \in SlotIds |-> c] ELSE lock

\* The row lock of SELECT ... FOR UPDATE: the row of slot s and no other.
LockAfterFind(c, s) ==
  IF Present(slots[s]) /\ lock[s] = 0 THEN [lock EXCEPT ![s] = c] ELSE lock

\* createBooking / cancelBooking / deleteSlot has returned or thrown r: the transaction
\* (if any) is rolled back or over, the response is sent (direct mode) or the
\* job result is published (queue mode).
Returned(cr, r) ==
  [cr EXCEPT !.result = r, !.txSlot = FALSE, !.txBooking = FALSE,
             !.slot = NoSlot, !.snap = {}, !.stale = FALSE,
             !.resp = IF mode = "direct" \/ cr.kind # "book"
                        THEN ControllerStatus(cr.kind, r) ELSE cr.resp,
             !.pc = IF mode = "direct" \/ cr.kind # "book" \/ cr.resp # 0
                      THEN "done" ELSE "finished"]

NoSerializationFailure(cr) == FALSE

\* Serializable isolation: a booking of the same user committed by a
\* concurrent transaction after this transaction's snapshot is a read/write
\* dependency cycle with its count queries.
SerializationFailure(cr) ==
  \E b \in bookings : /\ b.userId = cr.userId
                      /\ ~(\E o \in cr.snap : o.id = b.id)

---------------------------------------------------------------------------
(* BookingController.createBooking, direct branch, up to the first statement
   of the transaction *)

BookRequest(c, u, s) ==
  /\ mode = "direct"
  /\ CanStart(c)
  /\ calls' = [calls EXCEPT ![c] = findByIdForUpdate(NewBook(u, s), s)]
  /\ lock' = LockAfterFind(c, s)
  /\ ncalls' = ncalls + 1
  /\ pre' = <<slots, bookings>>
  /\ UNCHANGED <<now, slots, bookings, nextId, mode, layers, queue, active, nEnqueued, nStarted>>
  /\ UNCHANGED limiter
  /\ UNCHANGED creation

BookLockGrantedRetry(c) ==
  /\ calls[c].kind = "book" /\ calls[c].pc = "waiting"
  /\ lock[calls[c].target] = 0
  /\ IF calls[c].stale
       THEN /\ calls' = [calls EXCEPT ![c] =
                          findByIdForUpdate([calls[c] EXCEPT !.stale = FALSE], calls[c].target)]
            /\ lock' = LockAfterFind(c, calls[c].target)
            /\ active' = active
       ELSE /\ calls' = [calls EXCEPT ![c].pc = "locked",
                                      ![c].slot = slots[calls[c].target]]
            /\ lock' = [lock EXCEPT ![calls[c].target] = c]
            /\ active' = active
  /\ UNCHANGED <<now, slots, bookings, nextId, ncalls, mode, layers, queue, nEnqueued, nStarted, pre>>
  /\ UNCHANGED limiter
  /\ UNCHANGED creation

\* The row lock is released while the SELECT ... FOR UPDATE waits: it fails
\* with a serialization failure when the row was updated since the snapshot,
\* otherwise it takes the lock.
BookLockGranted(c) ==
  /\ calls[c].kind = "book" /\ calls[c].pc = "waiting"
  /\ lock[calls[c].target] = 0
  /\ IF calls[c].stale
       THEN /\ calls' = [calls EXCEPT ![c] = Returned(calls[c], "P2010_40001")]
            /\ active' = active \ {c}
            /\ lock' = lock
       ELSE /\ calls' = [calls EXCEPT ![c].pc = "locked",
                                      ![c].slot = slots[calls[c].target]]
            /\ lock' = [lock EXCEPT ![calls[c].target] = c]
            /\ active' = active
  /\ UNCHANGED <<now, slots, bookings, nextId, ncalls, mode, layers, queue, nEnqueued, nStarted, pre>>
  /\ UNCHANGED limiter
  /\ UNCHANGED creation

\* createBooking steps 2 to 8: the checks, then the slot update inside the
\* transaction.
BookCheck(c) ==
  /\ calls[c].kind = "book" /\ calls[c].pc = "locked"
  /\ LET cr == calls[c]
         r == Validate(cr.userId, cr.slot, cr.snap, slots, now)
         n == countActiveBookings(cr.userId, cr.snap, slots, now)
     IN IF r # "OK"
          THEN /\ calls' = [calls EXCEPT ![c] = Returned([cr EXCEPT !.at = now, !.cnt = n], r)]
               /\ lock' = Release(c)
               /\ active' = active \ {c}
               /\ slots' = slots
          ELSE /\ calls' = [calls EXCEPT ![c].pc = "updated", ![c].txSlot = TRUE,
                                         ![c].at = now, ![c].cnt = n, ![c].passed = TRUE]
               /\ slots' = updateStatus(slots, cr.target, "BOOKED")
               /\ UNCHANGED <<lock, active>>
  /\ UNCHANGED <<now, bookings, nextId, ncalls, mode, layers, queue, nEnqueued, nStarted, pre>>
  /\ UNCHANGED limiter
  /\ UNCHANGED creation

\* createBooking step 9: bookingRepository.create inside the transaction.
BookInsert(c) ==
  /\ calls[c].kind = "book" /\ calls[c].pc = "updated"
  /\ IF UniqueViolation(bookings, calls[c].target)
       THEN /\ calls' = [calls EXCEPT ![c] = Returned(calls[c], "P2002")]
            /\ lock' = Release(c)
            /\ active' = active \ {c}
       ELSE /\ calls' = [calls EXCEPT ![c].pc = "inserted", ![c].txBooking = TRUE]
            /\ UNCHANGED <<lock, active>>
  /\ UNCHANGED <<now, slots, bookings, nextId, ncalls, mode, layers, queue, nEnqueued, nStarted, pre>>
  /\ UNCHANGED limiter
  /\ UNCHANGED creation

\* Commit of the serializable transaction.
BookCommit(c) ==
  /\ calls[c].kind = "book" /\ calls[c].pc = "inserted"
  /\ nextId <= MaxBookings
  /\ LET cr == calls[c]
         s == cr.target
     IN IF SerializationFailure(cr)
          THEN /\ calls' = [calls EXCEPT ![c] = Returned(cr, "P2034")]
               /\ active' = active \ {c}
               /\ UNCHANGED <<slots, bookings, nextId>>
          ELSE /\ slots' = [slots EXCEPT ![s].status = "BOOKED"]
               /\ bookings' = bookings \cup
                    {[id |-> nextId, slotId |-> s, userId |-> cr.userId, status |-> "CONFIRMED"]}
               /\ nextId' = nextId + 1
               /\ calls' = [MarkStale(calls, s) EXCEPT
                              ![c] = [cr EXCEPT !.pc = "committed", !.bookingId = nextId,
                                                !.txSlot = FALSE, !.txBooking = FALSE,
                                                !.slot = NoSlot, !.snap = {}]]
               /\ active' = active
  /\ lock' = Release(c)
  /\ UNCHANGED <<now, ncalls, mode, layers, queue, nEnqueued, nStarted, pre>>
  /\ UNCHANGED limiter
  /\ UNCHANGED creation

BookRespondNotRetrieved(c) ==
  /\ calls[c].kind = "book" /\ calls[c].pc = "committed"
  /\ calls' = [calls EXCEPT ![c] = Returned(calls[c], "NOT_RETRIEVED")]
  /\ active' = active \ {c}
  /\ UNCHANGED <<now, slots, bookings, nextId, lock, ncalls, mode, layers, queue, nEnqueued, nStarted, pre>>
  /\ UNCHANGED limiter
  /\ UNCHANGED creation

\* After the commit: findByIdWithDetails, then the response.
BookRespond(c) ==
  /\ calls[c].kind = "book" /\ calls[c].pc = "committed"
  /\ LET r == IF Row(bookings, calls[c].bookingId) = NoBooking THEN "NOT_RETRIEVED" ELSE "OK"
     IN calls' = [calls EXCEPT ![c] = Returned(calls[c], r)]
  /\ active' = active \ {c}
  /\ UNCHANGED <<now, slots, bookings, nextId, lock, ncalls, mode, layers, queue, nEnqueued, nStarted, pre>>
  /\ UNCHANGED limiter
  /\ UNCHANGED creation

---------------------------------------------------------------------------
(* BookingService.cancelBooking *)

\* The read of the booking and the four checks, outside any transaction.
CancelRequest(c, u, b) ==
  /\ CanStart(c)
  /\ LET bk == Row(bookings, b)
         r == ValidateCancel(u, bk, slots, now)
         cr == [IdleCall EXCEPT !.kind = "cancel", !.userId = u, !.target = b, !.at = now]
     IN calls' = [calls EXCEPT ![c] =
                    IF r # "OK" THEN Returned(cr, r)
                    ELSE [cr EXCEPT !.pc = "cancelling", !.bookingId = b, !.passed = TRUE]]
  /\ ncalls' = ncalls + 1
  /\ pre' = <<slots, bookings>>
  /\ UNCHANGED <<now, slots, bookings, nextId, lock, mode, layers, queue, active, nEnqueued, nStarted>>
  /\ UNCHANGED limiter
  /\ UNCHANGED creation

\* The two updates of the cancel transaction, not yet committed: the slot
\* update waits for a row lock held by an admission transaction, then holds
\* the row lock itself until the commit.
CancelUpdate(c) ==
  /\ calls[c].kind = "cancel" /\ calls[c].pc = "cancelling"
  /\ LET bk == Row(bookings, calls[c].bookingId)
     IN /\ bk # NoBooking
        /\ lock[bk.slotId] = 0
        /\ lock' = [lock EXCEPT ![bk.slotId] = c]
  /\ calls' = [calls EXCEPT ![c].pc = "cancelLocked", ![c].txSlot = TRUE, ![c].txBooking = TRUE]
  /\ UNCHANGED <<now, slots, bookings, nextId, ncalls, mode, layers, queue, active, nEnqueued, nStarted, pre>>
  /\ UNCHANGED limiter
  /\ UNCHANGED creation

\* The cancel transaction: both updates and the commit, or the commit alone
\* after CancelUpdate.  The slot update waits for a row lock held by an
\* admission transaction.  The update of a booking row that is gone fails
\* with P2025.
CancelCommit(c) ==
  /\ calls[c].kind = "cancel" /\ calls[c].pc \in {"cancelling", "cancelLocked"}
  /\ LET bk == Row(bookings, calls[c].bookingId)
         s == bk.slotId
     IN IF bk = NoBooking
          THEN /\ calls' = [calls EXCEPT ![c] = Returned(calls[c], "P2025")]
               /\ UNCHANGED <<slots, bookings>>
          ELSE /\ lock[s] \in {0, c}
               /\ bookings' = bookingUpdateStatus(bookings, bk, "CANCELLED")
               /\ slots' = [slots EXCEPT ![s].status = "AVAILABLE"]
               /\ calls' = [MarkStale(calls, s) EXCEPT ![c] = Returned(calls[c], "OK")]
  /\ lock' = Release(c)
  /\ UNCHANGED <<now, nextId, ncalls, mode, layers, queue, active, nEnqueued, nStarted, pre>>
  /\ UNCHANGED limiter
  /\ UNCHANGED creation

---------------------------------------------------------------------------
(* SlotService.deleteSlot *)

\* The checks of deleteSlot on the row read by findByIdWithHost.
ValidateDelete(hostId, slot) ==
  IF ~Present(slot) THEN "NOT_FOUND"
  ELSE IF slot.hostId # hostId THEN "NOT_OWNER"
  ELSE IF slot.status = "BOOKED" THEN "SLOT_BOOKED"
  ELSE IF slot.status = "CANCELLED" THEN "NOOP"
  ELSE "OK"

\* ON DELETE CASCADE of "Booking_slotId_fkey": the booking rows that survive
\* the removal of slot s.
Booking_slotId_fkey(rows, s) == {b \in rows : b.slotId # s}

\* The read of the slot and the checks, outside any transaction.
DeleteRequest(c, h, s) ==
  /\ CanStart(c)
  /\ LET r == ValidateDelete(h, slots[s])
         cr == [IdleCall EXCEPT !.kind = "delete", !.userId = h, !.target = s, !.at = now,
                                !.slot = IF Present(slots[s]) THEN slots[s] ELSE NoSlot]
     IN calls' = [calls EXCEPT ![c] =
                    IF r = "NOOP" THEN [Returned(cr, "OK") EXCEPT !.slot = cr.slot]
                    ELSE IF r # "OK" THEN [Returned(cr, r) EXCEPT !.slot = cr.slot]
                    ELSE [cr EXCEPT !.pc = "deleting", !.passed = TRUE]]
  /\ ncalls' = ncalls + 1
  /\ pre' = <<slots, bookings>>
  /\ UNCHANGED <<now, slots, bookings, nextId, lock, mode, layers, queue, active, nEnqueued, nStarted>>
  /\ UNCHANGED limiter
  /\ UNCHANGED creation

\* slotRepository.delete: the DELETE waits for the row lock, removes the row
\* whatever its status is by then, and the foreign key removes its bookings.
DeleteApply(c) ==
  /\ calls[c].kind = "delete" /\ calls[c].pc = "deleting"
  /\ LET s == calls[c].target
     IN IF ~Present(slots[s])
          THEN /\ calls' = [calls EXCEPT ![c] = Returned(calls[c], "P2025")]
               /\ UNCHANGED <<slots, bookings>>
          ELSE /\ lock[s] = 0
               /\ slots' = [slots EXCEPT ![s].status = "DELETED"]
               /\ bookings' = Booking_slotId_fkey(bookings, s)
               /\ calls' = [MarkStale(calls, s) EXCEPT ![c] = Returned(calls[c], "OK")]
  /\ UNCHANGED <<now, nextId, lock, ncalls, mode, layers, queue, active, nEnqueued, nStarted, pre>>
  /\ UNCHANGED limiter
  /\ UNCHANGED creation

---------------------------------------------------------------------------
(* Queue mode: addBookingJob, the worker, the caller's wait *)

DequeueLifo(q) == <<q[Len(q)], SubSeq(q, 1, Len(q) - 1)>>

\* The job the worker takes next and the jobs left in the queue.
Dequeue(q) == <<Head(q), Tail(q)>>

\* bookingQueue.add in addBookingJob.
Enqueue(c, u, s) ==
  /\ mode = "queue"
  /\ CanStart(c)
  /\ calls' = [calls EXCEPT ![c] = [NewBook(u, s) EXCEPT !.pc = "queued", !.job = nEnqueued + 1]]
  /\ queue' = Append(queue, c)
  /\ nEnqueued' = nEnqueued + 1
  /\ ncalls' = ncalls + 1
  /\ pre' = <<slots, bookings>>
  /\ UNCHANGED <<now, slots, bookings, nextId, lock, mode, layers, active, nStarted>>
  /\ UNCHANGED limiter
  /\ UNCHANGED creation

\* The worker takes a job when it runs fewer than `concurrency` jobs, and
\* processBookingJob calls createBooking.
WorkerTake ==
  /\ mode = "queue"
  /\ queue # <<>>
  /\ Cardinality(active) < WorkerConcurrency
  /\ LET c == Dequeue(queue)[1]
     IN /\ calls' = [calls EXCEPT ![c] = findByIdForUpdate(calls[c], calls[c].target)]
        /\ lock' = LockAfterFind(c, calls[c].target)
        /\ active' = active \cup {c}
  /\ queue' = Dequeue(queue)[2]
  /\ nStarted' = nStarted + 1
  /\ UNCHANGED <<now, slots, bookings, nextId, ncalls, mode, layers, nEnqueued, pre>>
  /\ UNCHANGED limiter
  /\ UNCHANGED creation

\* job.waitUntilFinished resolves with the job result.
Deliver(c) ==
  /\ calls[c].pc = "finished"
  /\ calls' = [calls EXCEPT ![c].pc = "done",
                            ![c].resp = processBookingJob(calls[c].result)]
  /\ UNCHANGED <<now, slots, bookings, nextId, lock, ncalls, mode, layers, queue, active, nEnqueued, nStarted, pre>>
  /\ UNCHANGED limiter
  /\ UNCHANGED creation

CallerTimeoutCancels(c) ==
  /\ mode = "queue"
  /\ calls[c].kind = "book"
  /\ calls[c].pc \in {"queued", "committed"} \cup InTx
  /\ calls[c].resp = 0
  /\ calls' = [calls EXCEPT ![c].resp = errorHandler("TIMEOUT")]
  /\ queue' = SelectSeq(queue, LAMBDA d : d # c)
  /\ UNCHANGED <<now, slots, bookings, nextId, lock, ncalls, mode, layers, active, nEnqueued, nStarted, pre>>
  /\ UNCHANGED limiter
  /\ UNCHANGED creation

CallerWaitsForJob(c) ==
  /\ FALSE
  /\ UNCHANGED vars

\* job.waitUntilFinished rejects after the timeout; the job stays where it is.
CallerTimeout(c) ==
  /\ mode = "queue"
  /\ calls[c].kind = "book"
  /\ calls[c].pc \in {"queued", "committed"} \cup InTx
  /\ calls[c].resp = 0
  /\ calls' = [calls EXCEPT ![c].resp = errorHandler("TIMEOUT")]
  /\ UNCHANGED <<now, slots, bookings, nextId, lock, ncalls, mode, layers, queue, active, nEnqueued, nStarted, pre>>
  /\ UNCHANGED limiter
  /\ UNCHANGED creation

Tick ==
  /\ now < MaxTime
  /\ now' = now + 1
  /\ UNCHANGED <<slots, bookings, nextId, lock, calls, ncalls, mode, layers, queue, active, nEnqueued, nStarted, pre>>
  /\ UNCHANGED limiter
  /\ UNCHANGED creation

---------------------------------------------------------------------------
(* createRateLimiter: the fixed window counter in Redis *)

RlCallers == {1, 2}
RlReqs == 1..MaxRlConc

NoKey == [count |-> 0, expireAt |-> -1]

RateLimitKeyAnonymous(userId) == 0

\* key = `${keyPrefix}:${userId}`, one key per caller
RateLimitKey(userId) == userId

RlKeys == {0} \cup RlCallers

\* A key exists until its expiry time; expireAt = -1 is a key without expiry.
Live(st, k, t) == st[k].count > 0 /\ (st[k].expireAt = -1 \/ t < st[k].expireAt)

INCRSame(st, k, t) ==
  IF Live(st, k, t) THEN st
  ELSE [st EXCEPT ![k] = [count |-> 1, expireAt |-> -1]]

\* Redis INCR, EXPIRE and TTL at time t.
INCR(st, k, t) ==
  IF Live(st, k, t) THEN [st EXCEPT ![k].count = @ + 1]
  ELSE [st EXCEPT ![k] = [count |-> 1, expireAt |-> -1]]

EXPIRE(st, k, t, secs) ==
  IF Live(st, k, t) THEN [st EXCEPT ![k].expireAt = t + secs] ELSE st

TTL(st, k, t) ==
  IF ~Live(st, k, t) THEN -2
  ELSE IF st[k].expireAt = -1 THEN -1
  ELSE st[k].expireAt - t

NeedsExpireAlways(count) == count >= 1

\* if (count === 1): the request that created the counter sets its expiry
NeedsExpire(count) == count = 1

DeniedAtLimit(count) == count >= maxRequests

\* if (count > maxRequests)
Denied(count) == count > maxRequests

\* X-RateLimit-Remaining
Remaining(count) == IF maxRequests - count > 0 THEN maxRequests - count ELSE 0

OnStoreErrorDeny == "429"

\* catch (error): fail open
OnStoreError == "next"

\* A request in the middleware: count and ttl are what the store answered,
\* answer is "next" or "429", remaining is the header (-1: no header set);
\* n is the number of the request among those the store has counted for the
\* caller in the current window; shCount, shAnswer and shRemaining are the
\* same request served by a store that sees this caller's requests only.
\* last is the request that left the middleware most recently.
IdleReq ==
  [caller |-> 0, pc |-> "idle", count |-> 0, ttl |-> 0, answer |-> "", remaining |-> -1,
   failed |-> FALSE, n |-> 0, shCount |-> 0, shAnswer |-> "", shRemaining |-> -1]

InitLimiter ==
  /\ rlNow = 0
  /\ redis = [k \in RlKeys |-> NoKey]
  /\ reqs = [r \in RlReqs |-> IdleReq]
  /\ last = IdleReq
  /\ nreqs = 0
  /\ hist = [u \in RlCallers |-> [start |-> 0, n |-> 0]]
  /\ shadow = [u \in RlCallers |-> NoKey]
  /\ nfail = 0

RlFree(r) == reqs[r].pc = "idle"

\* A request takes the lowest free request record.
RlCanStart(r) ==
  /\ RlFree(r)
  /\ nreqs < MaxRlReqs
  /\ \A q \in RlReqs : q < r => ~RlFree(q)

\* A call to the counter store succeeds or fails.
CanFail(ok) == ok \/ nfail < MaxRlFail

\* The catch branch: the request is passed on, no header is set.
FailOpen(rq) == [rq EXCEPT !.pc = "done", !.failed = TRUE, !.answer = OnStoreError]

\* The window of the caller as the clock defines it: it starts with the first
\* counted request and lasts windowSeconds.
Counted(h, t) ==
  IF h.n = 0 \/ t >= h.start + windowSeconds THEN [start |-> t, n |-> 1]
  ELSE [h EXCEPT !.n = @ + 1]

\* The request arrives; getRedisClient connects or throws.
RlArrive(r, u, ok) ==
  /\ RlCanStart(r)
  /\ CanFail(ok)
  /\ IF ok
       THEN /\ reqs' = [reqs EXCEPT ![r] = [IdleReq EXCEPT !.caller = u, !.pc = "incr"]]
            /\ UNCHANGED <<last, nfail>>
       ELSE /\ last' = FailOpen([IdleReq EXCEPT !.caller = u])
            /\ nfail' = nfail + 1
            /\ UNCHANGED reqs
  /\ nreqs' = nreqs + 1
  /\ UNCHANGED <<rlNow, redis, hist, shadow>>
  /\ UNCHANGED store
  /\ UNCHANGED creation

\* const count = await redis.incr(key)
RlIncr(r, ok) ==
  /\ reqs[r].pc = "incr"
  /\ CanFail(ok)
  /\ LET u == reqs[r].caller
         k == RateLimitKey(u)
         st == INCR(redis, k, rlNow)
         sh == INCR(shadow, u, rlNow)
         h == Counted(hist[u], rlNow)
     IN IF ok
          THEN /\ redis' = st
               /\ shadow' = sh
               /\ hist' = [hist EXCEPT ![u] = h]
               /\ reqs' = [reqs EXCEPT ![r].count = st[k].count, ![r].shCount = sh[u].count,
                                       ![r].n = h.n,
                                       ![r].pc = IF NeedsExpire(st[k].count) THEN "expire" ELSE "ttl"]
               /\ UNCHANGED <<last, nfail>>
          ELSE /\ last' = FailOpen(reqs[r])
               /\ reqs' = [reqs EXCEPT ![r] = IdleReq]
               /\ nfail' = nfail + 1
               /\ UNCHANGED <<redis, shadow, hist>>
  /\ UNCHANGED <<rlNow, nreqs>>
  /\ UNCHANGED store
  /\ UNCHANGED creation

\* if (count === 1) await redis.expire(key, windowSeconds)
RlExpire(r, ok) ==
  /\ reqs[r].pc = "expire"
  /\ CanFail(ok)
  /\ LET u == reqs[r].caller
     IN IF ok
          THEN /\ redis' = EXPIRE(redis, RateLimitKey(u), rlNow, windowSeconds)
               /\ shadow' = EXPIRE(shadow, u, rlNow, windowSeconds)
               /\ reqs' = [reqs EXCEPT ![r].pc = "ttl"]
               /\ UNCHANGED <<last, nfail>>
          ELSE /\ last' = FailOpen(reqs[r])
               /\ reqs' = [reqs EXCEPT ![r] = IdleReq]
               /\ nfail' = nfail + 1
               /\ UNCHANGED <<redis, shadow>>
  /\ UNCHANGED <<rlNow, nreqs, hist>>
  /\ UNCHANGED store
  /\ UNCHANGED creation

\* const ttl = await redis.ttl(key); the headers; 429 or next()
RlTtl(r, ok) ==
  /\ reqs[r].pc = "ttl"
  /\ CanFail(ok)
  /\ LET rq == reqs[r]
     IN IF ok
          THEN /\ last' = [rq EXCEPT !.pc = "done",
                                     !.ttl = TTL(redis, RateLimitKey(rq.caller), rlNow),
                                     !.remaining = Remaining(rq.count),
                                     !.answer = IF Denied(rq.count) THEN "429" ELSE "next",
                                     !.shRemaining = Remaining(rq.shCount),
                                     !.shAnswer = IF Denied(rq.shCount) THEN "429" ELSE "next"]
               /\ UNCHANGED nfail
          ELSE /\ last' = FailOpen(rq)
               /\ nfail' = nfail + 1
  /\ reqs' = [reqs EXCEPT ![r] = IdleReq]
  /\ UNCHANGED <<rlNow, redis, nreqs, hist, shadow>>
  /\ UNCHANGED store
  /\ UNCHANGED creation

RlHalfWindow == windowSeconds \div 2

\* The clock of the counter store advances.  The store calls of one request
\* take less than one step of the clock.
RlTick ==
  /\ rlNow < MaxRlTime
  /\ \A r \in RlReqs : RlFree(r)
  /\ rlNow' = rlNow + RlStep
  /\ UNCHANGED <<redis, reqs, last, nreqs, hist, shadow, nfail>>
  /\ UNCHANGED store
  /\ UNCHANGED creation

\* The clock advances by half a window.
RlTickHalf ==
  /\ rlNow < MaxRlTime
  /\ \A r \in RlReqs : RlFree(r)
  /\ rlNow' = rlNow + RlHalfWindow
  /\ UNCHANGED <<redis, reqs, last, nreqs, hist, shadow, nfail>>
  /\ UNCHANGED store
  /\ UNCHANGED creation

---------------------------------------------------------------------------
(* createBooking with layers of the defence in depth removed: the direct
   branch, with only the layers of `layers` in place.  The serializable
   transaction and the other checks stay. *)

\* Checks 2 to 7 of createBooking, without check 3 when the status check is
\* removed.
ValidateLayer(userId, slot, rows, tbl, t) ==
  IF "check" \in layers \/ slot = NoSlot
    THEN Validate(userId, slot, rows, tbl, t)
    ELSE Validate(userId, [slot EXCEPT !.status = "AVAILABLE"], rows, tbl, t)

\* The first statement of the transaction when the lock is removed: a plain
\* SELECT of the row, which takes the snapshot and neither locks nor waits.
findById(cr, s) ==
  [cr EXCEPT !.pc = "read", !.snap = bookings, !.runs = @ + 1,
             !.slot = IF Present(slots[s]) THEN slots[s] ELSE NoSlot]

LayerBookRequest(c, u, s) ==
  /\ mode = "direct"
  /\ CanStart(c)
  /\ IF "lock" \in layers
       THEN /\ calls' = [calls EXCEPT ![c] = findByIdForUpdate(NewBook(u, s), s)]
            /\ lock' = LockAfterFind(c, s)
       ELSE /\ calls' = [calls EXCEPT ![c] = findById(NewBook(u, s), s)]
            /\ lock' = lock
  /\ ncalls' = ncalls + 1
  /\ pre' = <<slots, bookings>>
  /\ UNCHANGED <<now, slots, bookings, nextId, mode, layers, queue, active, nEnqueued, nStarted>>
  /\ UNCHANGED limiter
  /\ UNCHANGED creation

\* The checks, then the slot update inside the transaction.  Without the
\* FOR UPDATE the UPDATE statement is the first to lock the row: it waits
\* while another transaction holds the row, and fails with a serialization
\* failure when the row was updated since the snapshot.
LayerBookCheck(c) ==
  /\ calls[c].kind = "book" /\ calls[c].pc \in {"locked", "read"}
  /\ LET cr == calls[c]
         r == ValidateLayer(cr.userId, cr.slot, cr.snap, slots, now)
         n == countActiveBookings(cr.userId, cr.snap, slots, now)
         upd == [cr EXCEPT !.pc = "updated", !.txSlot = TRUE,
                           !.at = now, !.cnt = n, !.passed = TRUE]
     IN IF r # "OK"
          THEN /\ calls' = [calls EXCEPT ![c] = Returned([cr EXCEPT !.at = now, !.cnt = n], r)]
               /\ lock' = Release(c)
               /\ slots' = slots
          ELSE IF cr.pc = "locked"
          THEN /\ calls' = [calls EXCEPT ![c] = upd]
               /\ slots' = updateStatus(slots, cr.target, "BOOKED")
               /\ lock' = lock
          ELSE /\ lock[cr.target] = 0
               /\ IF cr.stale
                    THEN /\ calls' = [calls EXCEPT ![c] = Returned(cr, "P2034")]
                         /\ lock' = lock
                    ELSE /\ calls' = [calls EXCEPT ![c] = upd]
                         /\ lock' = [lock EXCEPT ![cr.target] = c]
               /\ slots' = updateStatus(slots, cr.target, "BOOKED")
  /\ UNCHANGED <<now, bookings, nextId, ncalls, mode, layers, queue, active, nEnqueued, nStarted, pre>>
  /\ UNCHANGED limiter
  /\ UNCHANGED creation

\* bookingRepository.create inside the transaction, against the unique
\* indexes or without them.
LayerBookInsert(c) ==
  /\ calls[c].kind = "book" /\ calls[c].pc = "updated"
  /\ IF "index" \in layers /\ UniqueViolation(bookings, calls[c].target)
       THEN /\ calls' = [calls EXCEPT ![c] = Returned(calls[c], "P2002")]
            /\ lock' = Release(c)
       ELSE /\ calls' = [calls EXCEPT ![c].pc = "inserted", ![c].txBooking = TRUE]
            /\ lock' = lock
  /\ UNCHANGED <<now, slots, bookings, nextId, ncalls, mode, layers, queue, active, nEnqueued, nStarted, pre>>
  /\ UNCHANGED limiter
  /\ UNCHANGED creation

---------------------------------------------------------------------------
(* SlotService.createSlot against the "Slot" table with its time ranges *)

Creators == 1..MaxCreators
SlotTimes == 0..MaxSlotTime

\* Users 1 and 2 have the role HOST, user 3 has not.
SlotHosts == {1, 2}
SlotCallers == {1, 2, 3}

\* userRepository.hasRole(hostId, UserRole.HOST)
hasRole(userId) == userId \in SlotHosts

hasOverlapClosed(rows, hostId, S, E) ==
  \E r \in rows :
    /\ r.hostId = hostId
    /\ r.status # "CANCELLED"
    /\ \/ r.startTime <= S /\ r.endTime >= S
       \/ r.startTime < E /\ r.endTime >= E
       \/ r.startTime >= S /\ r.endTime <= E

\* SlotRepository.hasOverlap: a slot of the host that is not CANCELLED and
\* meets one of the three conditions of the OR.
hasOverlap(rows, hostId, S, E) ==
  \E r \in rows :
    /\ r.hostId = hostId
    /\ r.status # "CANCELLED"
    /\ \/ r.startTime <= S /\ r.endTime > S
       \/ r.startTime < E /\ r.endTime >= E
       \/ r.startTime >= S /\ r.endTime <= E

NoExclusionConstraint(rows, hostId, S, E) == FALSE

\* CONSTRAINT "slot_no_overlap" EXCLUDE USING gist ("hostId" WITH =,
\* tsrange("startTime", "endTime", '[)') WITH &&): the insert of a row of the
\* host with range [S, E) meets a row of any status whose range intersects.
slot_no_overlap(rows, hostId, S, E) ==
  \E r \in rows : r.hostId = hostId /\ r.startTime < E /\ S < r.endTime

\* The checks of createSlot before the insert.
ValidateSlot(hostId, S, E, rows, t) ==
  IF ~hasRole(hostId) THEN "NOT_HOST"
  ELSE IF E <= S THEN "BAD_RANGE"
  ELSE IF S <= t THEN "START_IN_PAST"
  ELSE IF hasOverlap(rows, hostId, S, E) THEN "OVERLAP"
  ELSE "OK"

\* The error prisma.slot.create throws when the exclusion constraint refuses
\* the row: a known request error whose message names the constraint, or an
\* error the client does not know.
ExclusionErrors == {"P2010_slot_no_overlap", "UNKNOWN_23P01"}

IdleCreate ==
  [pc |-> "idle", id |-> 0, hostId |-> 0, startTime |-> 0, endTime |-> 0, result |-> "",
   resp |-> 0]

InitCreation ==
  /\ slotRows = {}
  /\ creates = [k \in Creators |-> IdleCreate]
  /\ ncreates = 0

\* createSlot up to the overlap check: reads of the committed table, no
\* transaction.
CreateSlotRequest(k, h, S, E) ==
  /\ creates[k].pc \in {"idle", "done"}
  /\ ncreates < MaxCreates
  /\ \A j \in Creators : j < k => creates[j].pc \notin {"idle", "done"}
  /\ LET r == ValidateSlot(h, S, E, slotRows, now)
         cr == [IdleCreate EXCEPT !.id = ncreates + 1, !.hostId = h, !.startTime = S,
                                  !.endTime = E]
     IN creates' = [creates EXCEPT ![k] =
                      IF r # "OK" THEN [cr EXCEPT !.pc = "done", !.result = r,
                                                  !.resp = errorHandler(r)]
                      ELSE [cr EXCEPT !.pc = "checked"]]
  /\ ncreates' = ncreates + 1
  /\ UNCHANGED slotRows
  /\ UNCHANGED store
  /\ UNCHANGED limiter

\* slotRepository.create: the insert, checked by the exclusion constraint.
CreateSlotInsert(k, e) ==
  /\ creates[k].pc = "checked"
  /\ LET cr == creates[k]
     IN IF slot_no_overlap(slotRows, cr.hostId, cr.startTime, cr.endTime)
          THEN /\ creates' = [creates EXCEPT ![k].pc = "done", ![k].result = e,
                                             ![k].resp = errorHandler(e)]
               /\ UNCHANGED slotRows
          ELSE /\ slotRows' = slotRows \cup
                    {[id |-> cr.id, hostId |-> cr.hostId, startTime |-> cr.startTime,
                      endTime |-> cr.endTime, status |-> "AVAILABLE"]}
               /\ creates' = [creates EXCEPT ![k].pc = "done", ![k].result = "OK",
                                             ![k].resp = 201]
  /\ UNCHANGED ncreates
  /\ UNCHANGED store
  /\ UNCHANGED limiter

---------------------------------------------------------------------------
(* bookingRoutes: POST /api/bookings *)

\* router.use(userContextMiddleware), then router.post('/') hands the request
\* to bookingController.createBooking, which calls the service or enqueues a
\* job.  No other middleware stands in the chain: the request reaches the
\* controller without a step of createRateLimiter.
PostBookings(c, u, s) == BookRequest(c, u, s) \/ Enqueue(c, u, s)

---------------------------------------------------------------------------
(* Specifications *)

RaceUsers == {2, 3}
RaceTargets == {1, 2}
RaceBookingIds == {1, 2}

SeedRows == {[id |-> 1, slotId |-> 1, userId |-> 2, status |-> st] : st \in {"CONFIRMED", "CANCELLED"}}

\* Initial stores of the concurrency runs: empty, or slot 1 booked by user 2,
\* or slot 1 booked and cancelled by user 2.
Init ==
  /\ now = 0
  /\ mode \in {"direct", "queue"}
  /\ \/ /\ bookings = {} /\ slots = RaceTable /\ nextId = 1
     \/ \E b \in SeedRows :
          /\ bookings = {b}
          /\ slots = [RaceTable EXCEPT ![1].status =
                        IF b.status = "CONFIRMED" THEN "BOOKED" ELSE "AVAILABLE"]
          /\ nextId = 2
  /\ lock = [s \in SlotIds |-> 0]
  /\ calls = [c \in Calls |-> IdleCall]
  /\ ncalls = 0
  /\ queue = <<>>
  /\ active = {}
  /\ nEnqueued = 0
  /\ nStarted = 0
  /\ pre = <<slots, bookings>>
  /\ layers = Layers
  /\ InitLimiter
  /\ InitCreation

Next ==
  \/ \E c \in Calls, u \in RaceUsers, s \in RaceTargets : BookRequest(c, u, s)
  \/ \E c \in Calls, u \in RaceUsers, s \in RaceTargets : Enqueue(c, u, s)
  \/ \E c \in Calls, u \in RaceUsers, b \in RaceBookingIds : CancelRequest(c, u, b)
  \/ \E c \in Calls : BookLockGranted(c)
  \/ \E c \in Calls : BookCheck(c)
  \/ \E c \in Calls : BookInsert(c)
  \/ \E c \in Calls : BookCommit(c)
  \/ \E c \in Calls : BookRespond(c)
  \/ \E c \in Calls : CancelCommit(c)
  \/ WorkerTake
  \/ \E c \in Calls : Deliver(c)
  \/ \E c \in Calls : CallerTimeout(c)

Spec == Init /\ [][Next]_vars

SeqUsers == {1, 2}
SeedCounts == {MAX_ACTIVE_BOOKINGS - 1, MAX_ACTIVE_BOOKINGS}

\* Initial stores of the sequential runs: user 1 holds CONFIRMED bookings on
\* slots 1..k of k distinct hosts.
InitSeq ==
  /\ now = 0
  /\ mode = "direct"
  /\ \E k \in SeedCounts :
       /\ bookings = {[id |-> i, slotId |-> i, userId |-> 1, status |-> "CONFIRMED"] : i \in 1..k}
       /\ slots = [s \in SlotIds |-> IF s \in 1..k THEN [SeqTable[s] EXCEPT !.status = "BOOKED"]
                                                    ELSE SeqTable[s]]
       /\ nextId = k + 1
  /\ lock = [s \in SlotIds |-> 0]
  /\ calls = [c \in Calls |-> IdleCall]
  /\ ncalls = 0
  /\ queue = <<>>
  /\ active = {}
  /\ nEnqueued = 0
  /\ nStarted = 0
  /\ pre = <<slots, bookings>>
  /\ layers = Layers
  /\ InitLimiter
  /\ InitCreation

\* One request at a time.
NextSeq ==
  \/ \E c \in Calls, u \in SeqUsers, s \in SlotIds : Sequential /\ BookRequest(c, u, s)
  \/ \E c \in Calls, u \in SeqUsers, b \in BookingIds : Sequential /\ CancelRequest(c, u, b)
  \/ \E c \in Calls : BookCheck(c)
  \/ \E c \in Calls : BookInsert(c)
  \/ \E c \in Calls : BookCommit(c)
  \/ \E c \in Calls : BookRespond(c)
  \/ \E c \in Calls : CancelCommit(c)
  \/ Tick

SpecSeq == InitSeq /\ [][NextSeq]_vars

DelHosts == {1}
DelTargets == {1}

\* Initial stores of the deletion runs: those of the concurrency runs, direct
\* mode.
InitDel == Init /\ mode = "direct"

\* Book and cancel calls of the guests and deleteSlot calls of the host.
NextDel ==
  \/ \E c \in Calls, u \in RaceUsers, s \in DelTargets : BookRequest(c, u, s)
  \/ \E c \in Calls, u \in RaceUsers, b \in RaceBookingIds : CancelRequest(c, u, b)
  \/ \E c \in Calls, h \in DelHosts, s \in DelTargets : DeleteRequest(c, h, s)
  \/ \E c \in Calls : BookLockGranted(c)
  \/ \E c \in Calls : BookCheck(c)
  \/ \E c \in Calls : BookInsert(c)
  \/ \E c \in Calls : BookCommit(c)
  \/ \E c \in Calls : BookRespond(c)
  \/ \E c \in Calls : CancelCommit(c)
  \/ \E c \in Calls : DeleteApply(c)

SpecDel == InitDel /\ [][NextDel]_vars

\* The limiter alone, on an empty booking store.
InitRL == Init /\ mode = "direct" /\ bookings = {}

\* Two callers, every call to the counter store succeeds.
NextRL ==
  \/ \E r \in RlReqs, u \in RlCallers : RlArrive(r, u, TRUE)
  \/ \E r \in RlReqs : RlIncr(r, TRUE)
  \/ \E r \in RlReqs : RlExpire(r, TRUE)
  \/ \E r \in RlReqs : RlTtl(r, TRUE)
  \/ RlTick

SpecRL == InitRL /\ [][NextRL]_vars

RlFailCallers == {1}

\* One caller, calls to the counter store may fail.
NextRLFail ==
  \/ \E r \in RlReqs, u \in RlFailCallers, ok \in BOOLEAN : RlArrive(r, u, ok)
  \/ \E r \in RlReqs, ok \in BOOLEAN : RlIncr(r, ok)
  \/ \E r \in RlReqs, ok \in BOOLEAN : RlExpire(r, ok)
  \/ \E r \in RlReqs, ok \in BOOLEAN : RlTtl(r, ok)
  \/ RlTick

SpecRLFail == InitRL /\ [][NextRLFail]_vars

UserSeedCounts == {MAX_ACTIVE_BOOKINGS - 2, MAX_ACTIVE_BOOKINGS - 1}
UserTargets == {5, 6, 7}

\* Initial stores of the same-user runs: user 1 holds CONFIRMED bookings on
\* slots 1..k of k distinct hosts, direct mode.
InitUser ==
  /\ now = 0
  /\ mode = "direct"
  /\ \E k \in UserSeedCounts :
       /\ bookings = {[id |-> i, slotId |-> i, userId |-> 1, status |-> "CONFIRMED"] : i \in 1..k}
       /\ slots = [s \in SlotIds |-> IF s \in 1..k THEN [UserTable[s] EXCEPT !.status = "BOOKED"]
                                                    ELSE UserTable[s]]
       /\ nextId = k + 1
  /\ lock = [s \in SlotIds |-> 0]
  /\ calls = [c \in Calls |-> IdleCall]
  /\ ncalls = 0
  /\ queue = <<>>
  /\ active = {}
  /\ nEnqueued = 0
  /\ nStarted = 0
  /\ pre = <<slots, bookings>>
  /\ layers = Layers
  /\ InitLimiter
  /\ InitCreation

\* Concurrent calls of one user.
NextUser ==
  \/ \E c \in Calls, s \in UserTargets : BookRequest(c, 1, s)
  \/ \E c \in Calls, b \in BookingIds : CancelRequest(c, 1, b)
  \/ \E c \in Calls : BookLockGranted(c)
  \/ \E c \in Calls : BookCheck(c)
  \/ \E c \in Calls : BookInsert(c)
  \/ \E c \in Calls : BookCommit(c)
  \/ \E c \in Calls : BookRespond(c)
  \/ \E c \in Calls : CancelCommit(c)

SpecUser == InitUser /\ [][NextUser]_vars

\* The booking endpoint as the router serves it: book requests only.
NextRoute ==
  \/ \E c \in Calls, u \in RaceUsers, s \in RaceTargets : PostBookings(c, u, s)
  \/ \E c \in Calls : BookLockGranted(c)
  \/ \E c \in Calls : BookCheck(c)
  \/ \E c \in Calls : BookInsert(c)
  \/ \E c \in Calls : BookCommit(c)
  \/ \E c \in Calls : BookRespond(c)
  \/ WorkerTake
  \/ \E c \in Calls : Deliver(c)

SpecRoute == Init /\ [][NextRoute]_vars

\* Queue mode, empty booking store.
InitQueue == Init /\ mode = "queue" /\ bookings = {}

QueueTargets == {1}

\* Book requests of two users for one slot through the queue.
NextQueue ==
  \/ \E c \in Calls, u \in RaceUsers, s \in QueueTargets : Enqueue(c, u, s)
  \/ \E c \in Calls : BookCheck(c)
  \/ \E c \in Calls : BookInsert(c)
  \/ \E c \in Calls : BookCommit(c)
  \/ \E c \in Calls : BookRespond(c)
  \/ WorkerTake
  \/ \E c \in Calls : Deliver(c)
  \/ \E c \in Calls : CallerTimeout(c)

\* The worker is a running process that takes the next job whenever it is
\* idle, and the statements of the transaction it has opened are answered by
\* the database: none of these steps is postponed for ever.
WorkerRuns ==
  /\ WF_vars(WorkerTake)
  /\ \A c \in Calls : /\ WF_vars(BookCheck(c))
                       /\ WF_vars(BookInsert(c))
                       /\ WF_vars(BookCommit(c))
                       /\ WF_vars(BookRespond(c))

SpecQueueFair == InitQueue /\ [][NextQueue]_vars /\ WorkerRuns

\* Book requests in either mode against cancel calls whose transaction holds
\* the slot row between its updates and its commit.
NextCancelRace ==
  \/ \E c \in Calls, u \in RaceUsers, s \in RaceTargets : PostBookings(c, u, s)
  \/ \E c \in Calls, u \in RaceUsers, b \in RaceBookingIds : CancelRequest(c, u, b)
  \/ \E c \in Calls : CancelUpdate(c)
  \/ \E c \in Calls : CancelCommit(c)
  \/ \E c \in Calls : BookLockGranted(c)
  \/ \E c \in Calls : BookCheck(c)
  \/ \E c \in Calls : BookInsert(c)
  \/ \E c \in Calls : BookCommit(c)
  \/ \E c \in Calls : BookRespond(c)
  \/ WorkerTake
  \/ \E c \in Calls : Deliver(c)

SpecCancelRace == Init /\ [][NextCancelRace]_vars

\* One layer in place, the other two removed; empty booking store, direct
\* mode.
InitLayers ==
  /\ now = 0
  /\ mode = "direct"
  /\ bookings = {} /\ slots = RaceTable /\ nextId = 1
  /\ lock = [s \in SlotIds |-> 0]
  /\ calls = [c \in Calls |-> IdleCall]
  /\ ncalls = 0
  /\ queue = <<>>
  /\ active = {}
  /\ nEnqueued = 0
  /\ nStarted = 0
  /\ pre = <<slots, bookings>>
  /\ \E l \in Layers : layers = {l}
  /\ InitLimiter
  /\ InitCreation

\* Concurrent book calls.
NextLayers ==
  \/ \E c \in Calls, u \in RaceUsers, s \in RaceTargets : LayerBookRequest(c, u, s)
  \/ \E c \in Calls : BookLockGranted(c)
  \/ \E c \in Calls : LayerBookCheck(c)
  \/ \E c \in Calls : LayerBookInsert(c)
  \/ \E c \in Calls : BookCommit(c)
  \/ \E c \in Calls : BookRespond(c)

SpecLayers == InitLayers /\ [][NextLayers]_vars

\* Book and cancel calls for one slot, in either mode, the cancel
\* transaction holding the slot row between its updates and its commit.
NextCancelPair ==
  \/ \E c \in Calls, u \in RaceUsers, s \in QueueTargets : PostBookings(c, u, s)
  \/ \E c \in Calls, u \in RaceUsers, b \in RaceBookingIds : CancelRequest(c, u, b)
  \/ \E c \in Calls : CancelUpdate(c)
  \/ \E c \in Calls : CancelCommit(c)
  \/ \E c \in Calls : BookLockGranted(c)
  \/ \E c \in Calls : BookCheck(c)
  \/ \E c \in Calls : BookInsert(c)
  \/ \E c \in Calls : BookCommit(c)
  \/ \E c \in Calls : BookRespond(c)
  \/ WorkerTake
  \/ \E c \in Calls : Deliver(c)

SpecCancelPair == Init /\ [][NextCancelPair]_vars

\* Book requests one after the other, in direct mode or in queue mode: a
\* request is issued when no call is in flight.
NextModes ==
  \/ \E c \in Calls, u \in RaceUsers, s \in RaceTargets : Sequential /\ PostBookings(c, u, s)
  \/ \E c \in Calls : BookCheck(c)
  \/ \E c \in Calls : BookInsert(c)
  \/ \E c \in Calls : BookCommit(c)
  \/ \E c \in Calls : BookRespond(c)
  \/ WorkerTake
  \/ \E c \in Calls : Deliver(c)

SpecModes == Init /\ [][NextModes]_vars

\* One caller whose requests are spread over a window, every call to the
\* counter store succeeds.
NextRLWindow ==
  \/ \E r \in RlReqs, u \in RlFailCallers : RlArrive(r, u, TRUE)
  \/ \E r \in RlReqs : RlIncr(r, TRUE)
  \/ \E r \in RlReqs : RlExpire(r, TRUE)
  \/ \E r \in RlReqs : RlTtl(r, TRUE)
  \/ RlTickHalf

SpecRLWindow == InitRL /\ [][NextRLWindow]_vars

\* Book requests of two users for one slot, in direct mode or in queue mode,
\* with the timeout of the caller's wait.
NextAnswer ==
  \/ \E c \in Calls, u \in RaceUsers, s \in QueueTargets : PostBookings(c, u, s)
  \/ \E c \in Calls : BookLockGranted(c)
  \/ \E c \in Calls : BookCheck(c)
  \/ \E c \in Calls : BookInsert(c)
  \/ \E c \in Calls : BookCommit(c)
  \/ \E c \in Calls : BookRespond(c)
  \/ WorkerTake
  \/ \E c \in Calls : Deliver(c)
  \/ \E c \in Calls : CallerTimeout(c)

\* The database answers every statement of an open transaction and grants a
\* free row lock to a waiter; the timer of the caller's wait fires and a
\* published job result reaches the waiting caller.  Nothing is assumed of
\* the worker: it may never take a job.
CallersAnswered ==
  \A c \in Calls : /\ WF_vars(BookLockGranted(c))
                   /\ WF_vars(BookCheck(c))
                   /\ WF_vars(BookInsert(c))
                   /\ WF_vars(BookCommit(c))
                   /\ WF_vars(BookRespond(c))
                   /\ WF_vars(Deliver(c))
                   /\ WF_vars(CallerTimeout(c))

SpecAnswerFair == Init /\ [][NextAnswer]_vars /\ CallersAnswered

SlotSeedStatuses == {"AVAILABLE", "BOOKED", "CANCELLED"}

\* Initial "Slot" tables of the creation runs: empty, or one slot of host 1
\* over [1, 2) in any status.
SlotSeeds ==
  {{}} \cup {{[id |-> 0, hostId |-> 1, startTime |-> 1, endTime |-> 2, status |-> st]} :
              st \in SlotSeedStatuses}

InitSlots ==
  /\ now = 0
  /\ mode = "direct"
  /\ bookings = {}
  /\ slots = RaceTable
  /\ nextId = 1
  /\ lock = [s \in SlotIds |-> 0]
  /\ calls = [c \in Calls |-> IdleCall]
  /\ ncalls = 0
  /\ queue = <<>>
  /\ active = {}
  /\ nEnqueued = 0
  /\ nStarted = 0
  /\ pre = <<slots, bookings>>
  /\ layers = Layers
  /\ InitLimiter
  /\ slotRows \in SlotSeeds
  /\ creates = [k \in Creators |-> IdleCreate]
  /\ ncreates = 0

\* Concurrent createSlot calls of the hosts and of a user who is no host.
NextSlots ==
  \/ \E k \in Creators, h \in SlotCallers, S \in SlotTimes, E \in SlotTimes :
       CreateSlotRequest(k, h, S, E)
  \/ \E k \in Creators, e \in ExclusionErrors : CreateSlotInsert(k, e)

SpecSlots == InitSlots /\ [][NextSlots]_vars

---------------------------------------------------------------------------
(* Properties *)

Started == {c \in Calls : calls[c].kind # "none"}
Books == {c \in Calls : calls[c].kind = "book"}
DoneBooks == {c \in Books : calls[c].pc = "done"}

\* Every request issued so far still has its call record.
AllCallsVisible == ncalls = Cardinality(Started)

\* All requests so far are book requests for slot s by distinct users, each
\* issued while the store would admit it, and all have been answered.
RaceOn(s) ==
  /\ AllCallsVisible
  /\ Started # {}
  /\ \A c \in Started : /\ calls[c].kind = "book" /\ calls[c].target = s
                        /\ calls[c].elig
                        /\ calls[c].pc = "done"
                        /\ (mode = "queue" => calls[c].resp = processBookingJob(calls[c].result))
  /\ \A c, d \in Started : c # d => calls[c].userId # calls[d].userId

\* C1: every slot has at most one booking row with status CONFIRMED, in
\* every reachable state of direct and queue mode.
C1_AtMostOneConfirmed ==
  \A s \in SlotIds : Cardinality(Confirmed(bookings, s)) <= 1

\* A book request was refused with 409 while its slot holds a CONFIRMED booking.
C1_Witness ==
  \E c \in DoneBooks : /\ calls[c].resp = 409
                       /\ Cardinality(Confirmed(bookings, calls[c].target)) = 1

\* C2: when distinct eligible users have raced for one AVAILABLE future slot
\* and all calls have returned, exactly one got 201, every other one got 409,
\* the slot is BOOKED and has exactly one CONFIRMED booking.
C2_ExactlyOneWinner ==
  \A s \in RaceTargets :
    RaceOn(s) =>
      /\ Cardinality({c \in Started : calls[c].resp = 201}) = 1
      /\ \A c \in Started : calls[c].resp \in {201, 409}
      /\ slots[s].status = "BOOKED"
      /\ Cardinality(Confirmed(bookings, s)) = 1

\* C3: when K >= M distinct users, spread round-robin over the M AVAILABLE
\* future slots, have each issued one book call and all calls have returned,
\* every slot has exactly one CONFIRMED booking.
C3_OneBookingPerSlot ==
  ( /\ AllCallsVisible
    /\ \A c \in Started : /\ calls[c].kind = "book" /\ calls[c].elig
                          /\ calls[c].pc = "done"
    /\ \A c, d \in Started : c # d => calls[c].userId # calls[d].userId
    /\ \A s \in RaceTargets : \E c \in Started : calls[c].target = s
    /\ \A s1, s2 \in RaceTargets :
         Cardinality({c \in Started : calls[c].target = s1})
           <= Cardinality({c \in Started : calls[c].target = s2}) + 1 )
  => \A s \in RaceTargets : Cardinality(Confirmed(bookings, s)) = 1

\* C5: in queue mode, when several distinct eligible callers have submitted
\* book requests for the same AVAILABLE slot and all jobs have finished, the
\* first enqueued job succeeded and every later one was rejected.
C5_FirstEnqueuedWins ==
  \A s \in RaceTargets :
    ( /\ mode = "queue"
      /\ AllCallsVisible
      /\ Cardinality(Started) >= 2
      /\ \A c \in Started : /\ calls[c].kind = "book" /\ calls[c].target = s
                            /\ calls[c].elig
                            /\ calls[c].pc \in {"finished", "done"}
      /\ \A c, d \in Started : c # d => calls[c].userId # calls[d].userId )
    => \A c \in Started :
         IF \A d \in Started : calls[c].job <= calls[d].job
           THEN calls[c].result = "OK"
           ELSE calls[c].result # "OK"

\* C6: in queue mode at most one createBooking transaction is open at any
\* moment.
C6_OneTransactionAtATime ==
  mode = "queue" => Cardinality({c \in Books : calls[c].pc \in InTx}) <= 1

\* The worker runs a transaction while another job waits in the queue.
C6_Witness ==
  /\ mode = "queue"
  /\ \E c \in Books : calls[c].pc \in InTx
  /\ queue # <<>>

\* C7: in queue mode the k-th job the worker starts is the k-th job that was
\* enqueued, and when a job is started the transaction of every job enqueued
\* before it is over (committed or failed).
C7_EnqueueOrder ==
  mode = "queue" =>
    /\ \A c \in active : calls[c].job = nStarted
    /\ \A i \in 1..Len(queue) : calls[queue[i]].job = nStarted + i
    /\ \A c \in Books : calls[c].job < nStarted => calls[c].pc \notin InTx \cup {"queued"}

\* The second job runs after the first one is over.
C7_Witness ==
  /\ mode = "queue"
  /\ \E c \in active, d \in Books :
       /\ calls[c].job = nStarted /\ calls[c].pc \in InTx
       /\ calls[d].job = nStarted - 1 /\ calls[d].pc \in {"finished", "done"}

---------------------------------------------------------------------------
(* Properties of the sequential runs; pre is the committed store at the
   moment the current request was issued *)

PreSlots == pre[1]
PreRows == pre[2]

\* Rules 2 to 7 of createBooking as the specification lists them, as
\* predicates on the store before the call and the time of the check.
SlotMissing(c) == ~Present(PreSlots[calls[c].target])
SlotNotAvailable(c) == PreSlots[calls[c].target].status # "AVAILABLE"
SlotNotFuture(c) == PreSlots[calls[c].target].startTime <= calls[c].at
CallerIsHost(c) == PreSlots[calls[c].target].hostId = calls[c].userId
ActiveCount(c) ==
  Cardinality({b \in PreRows : /\ b.userId = calls[c].userId /\ b.status = "CONFIRMED"
                               /\ PreSlots[b.slotId].startTime > calls[c].at})
AtLimit(c) == ActiveCount(c) >= MAX_ACTIVE_BOOKINGS
HasBookingWithHost(c) ==
  \E b \in PreRows : /\ b.userId = calls[c].userId /\ b.status = "CONFIRMED"
                     /\ PreSlots[b.slotId].hostId = PreSlots[calls[c].target].hostId

Got(c, r, st) == calls[c].result = r /\ calls[c].resp = st

\* C8: a book call returns the rejection of the first violated rule, in the
\* order missing (404), not AVAILABLE (409), not in the future (400), own
\* slot (400), five or more future CONFIRMED bookings (409), a CONFIRMED
\* booking with the same host (409); it succeeds only when no rule is violated.
C8_FirstViolatedRule ==
  \A c \in DoneBooks :
    /\ SlotMissing(c) => Got(c, "NOT_FOUND", 404)
    /\ (~SlotMissing(c) /\ SlotNotAvailable(c)) => Got(c, "SLOT_UNAVAILABLE", 409)
    /\ (~SlotMissing(c) /\ ~SlotNotAvailable(c) /\ SlotNotFuture(c)) => Got(c, "SLOT_IN_PAST", 400)
    /\ (~SlotMissing(c) /\ ~SlotNotAvailable(c) /\ ~SlotNotFuture(c) /\ CallerIsHost(c))
         => Got(c, "OWN_SLOT", 400)
    /\ (~SlotMissing(c) /\ ~SlotNotAvailable(c) /\ ~SlotNotFuture(c) /\ ~CallerIsHost(c)
          /\ AtLimit(c)) => Got(c, "MAX_ACTIVE", 409)
    /\ (~SlotMissing(c) /\ ~SlotNotAvailable(c) /\ ~SlotNotFuture(c) /\ ~CallerIsHost(c)
          /\ ~AtLimit(c) /\ HasBookingWithHost(c)) => Got(c, "DUP_HOST", 409)
    /\ calls[c].resp = 201 =>
         (~SlotMissing(c) /\ ~SlotNotAvailable(c) /\ ~SlotNotFuture(c) /\ ~CallerIsHost(c)
            /\ ~AtLimit(c) /\ ~HasBookingWithHost(c))

\* A call that violates several rules at once: a BOOKED slot that has already
\* started, booked by its own host.
C8_Witness ==
  \E c \in DoneBooks :
    /\ ~SlotMissing(c) /\ SlotNotAvailable(c) /\ SlotNotFuture(c) /\ CallerIsHost(c)
    /\ Got(c, "SLOT_UNAVAILABLE", 409)

\* C9: when a book call has ended in a rejection or a storage error, the
\* committed slot table and booking rows are what they were before the call.
C9_FailedCallChangesNothing ==
  \A c \in DoneBooks :
    calls[c].result # "OK" => (slots = PreSlots /\ bookings = PreRows)

\* The booking insert failed after the slot update of the same transaction.
C9_Witness ==
  \E c \in DoneBooks : calls[c].result = "P2002" /\ calls[c].passed

\* C4: a cancel by the owner of a CONFIRMED booking more than one hour before
\* the slot starts succeeds, leaves the booking CANCELLED and the slot
\* AVAILABLE; a later book of that slot by a different eligible user succeeds
\* and adds a CONFIRMED row next to the retained CANCELLED one.
C4_CancelThenRebook ==
  /\ \A c \in Calls :
       ( /\ calls[c].kind = "cancel" /\ calls[c].pc = "done"
         /\ Row(PreRows, calls[c].target).status = "CONFIRMED"
         /\ Row(PreRows, calls[c].target).userId = calls[c].userId
         /\ PreSlots[Row(PreRows, calls[c].target).slotId].startTime - calls[c].at
              > CANCELLATION_WINDOW_HOURS * TicksPerHour )
       => /\ calls[c].resp = 200
          /\ Row(bookings, calls[c].target).status = "CANCELLED"
          /\ slots[Row(bookings, calls[c].target).slotId].status = "AVAILABLE"
  /\ \A c \in DoneBooks :
       ( /\ calls[c].passed
         /\ \E b \in PreRows : /\ b.slotId = calls[c].target /\ b.status = "CANCELLED"
                               /\ b.userId # calls[c].userId )
       => /\ calls[c].resp = 201
          /\ \E b \in bookings : /\ b.slotId = calls[c].target /\ b.status = "CONFIRMED"
                                 /\ b.userId = calls[c].userId
          /\ PreRows \subseteq bookings

\* C10: a user with five future CONFIRMED bookings is refused with 409 on a
\* further book call; once a cancel has left that user with four, a book call
\* on an otherwise eligible slot succeeds.
C10_LimitThenRoom ==
  \A c \in DoneBooks :
    ( /\ ~SlotMissing(c) /\ ~SlotNotAvailable(c) /\ ~SlotNotFuture(c) /\ ~CallerIsHost(c) )
    => /\ ActiveCount(c) = MAX_ACTIVE_BOOKINGS => Got(c, "MAX_ACTIVE", 409)
       /\ ( /\ ActiveCount(c) = MAX_ACTIVE_BOOKINGS - 1
            /\ ~HasBookingWithHost(c)
            /\ \E b \in PreRows : b.userId = calls[c].userId /\ b.status = "CANCELLED" )
          => calls[c].resp = 201

---------------------------------------------------------------------------
(* Properties of the same-user runs *)

FutureConfirmed(u) ==
  {b \in bookings : /\ b.userId = u /\ b.status = "CONFIRMED"
                    /\ slots[b.slotId] # NoSlot /\ slots[b.slotId].startTime > now}

BookingUsers == {b.userId : b \in bookings}

\* C11: no user has more than MAX_ACTIVE_BOOKINGS CONFIRMED bookings on
\* slots that start in the future, also when the same user books distinct
\* slots of distinct hosts concurrently.
C11_AtMostMaxActive ==
  \A u \in BookingUsers : Cardinality(FutureConfirmed(u)) <= MAX_ACTIVE_BOOKINGS

\* Two concurrent calls of the user on different slots both passed the count
\* check at MAX_ACTIVE_BOOKINGS - 1; one committed, the other failed at commit.
C11_Witness ==
  \E c, d \in DoneBooks :
    /\ c # d /\ calls[c].userId = calls[d].userId /\ calls[c].target # calls[d].target
    /\ calls[c].passed /\ calls[d].passed
    /\ calls[c].cnt = MAX_ACTIVE_BOOKINGS - 1 /\ calls[d].cnt = MAX_ACTIVE_BOOKINGS - 1
    /\ calls[c].result = "OK" /\ calls[d].result = "P2034"
    /\ Cardinality(FutureConfirmed(calls[c].userId)) = MAX_ACTIVE_BOOKINGS

\* C12: no user holds two CONFIRMED bookings on slots of the same host, also
\* when the user books two slots of that host concurrently.
C12_OneBookingPerHost ==
  \A b1, b2 \in bookings :
    ( /\ b1.id # b2.id /\ b1.userId = b2.userId
      /\ b1.status = "CONFIRMED" /\ b2.status = "CONFIRMED"
      /\ slots[b1.slotId] # NoSlot /\ slots[b2.slotId] # NoSlot )
    => slots[b1.slotId].hostId # slots[b2.slotId].hostId

\* Two concurrent calls of the user on two slots of one host both passed the
\* checks; one committed, the other failed at commit.
C12_Witness ==
  \E c, d \in DoneBooks :
    /\ c # d /\ calls[c].userId = calls[d].userId /\ calls[c].target # calls[d].target
    /\ slots[calls[c].target].hostId = slots[calls[d].target].hostId
    /\ calls[c].passed /\ calls[d].passed
    /\ calls[c].result = "OK" /\ calls[d].result = "P2034"

---------------------------------------------------------------------------
(* Properties of cancel in the sequential runs *)

DoneCancels == {c \in Calls : calls[c].kind = "cancel" /\ calls[c].pc = "done"}

\* The booking a cancel call names, as it was before the call, and the time
\* left until its slot starts.
PreBooking(c) == Row(PreRows, calls[c].target)
BookingMissing(c) == PreBooking(c) = NoBooking
NotOwner(c) == PreBooking(c).userId # calls[c].userId
AlreadyCancelled(c) == PreBooking(c).status = "CANCELLED"
TicksUntilStart(c) == PreSlots[PreBooking(c).slotId].startTime - calls[c].at
OneHour == CANCELLATION_WINDOW_HOURS * TicksPerHour

\* C13: a cancel call returns the rejection of the first violated rule, in
\* the order booking missing (404), caller not the owner (403), booking
\* already CANCELLED (409), slot starts in less than the cancellation window
\* (400); it succeeds only when no rule is violated, and a rejected call
\* leaves every booking and every slot as it was.
C13_CancelFirstViolatedRule ==
  \A c \in DoneCancels :
    /\ BookingMissing(c) => Got(c, "BOOKING_NOT_FOUND", 404)
    /\ (~BookingMissing(c) /\ NotOwner(c)) => Got(c, "FORBIDDEN", 403)
    /\ (~BookingMissing(c) /\ ~NotOwner(c) /\ AlreadyCancelled(c))
         => Got(c, "ALREADY_CANCELLED", 409)
    /\ (~BookingMissing(c) /\ ~NotOwner(c) /\ ~AlreadyCancelled(c) /\ TicksUntilStart(c) < OneHour)
         => Got(c, "TOO_LATE", 400)
    /\ calls[c].resp = 200 =>
         (~BookingMissing(c) /\ ~NotOwner(c) /\ ~AlreadyCancelled(c) /\ TicksUntilStart(c) >= OneHour)
    /\ calls[c].result # "OK" => (slots = PreSlots /\ bookings = PreRows)

\* A cancel that violates three rules at once: not the owner, the booking
\* already CANCELLED, the slot about to start.
C13_Witness ==
  \E c \in DoneCancels :
    /\ ~BookingMissing(c) /\ NotOwner(c) /\ AlreadyCancelled(c) /\ TicksUntilStart(c) < OneHour
    /\ Got(c, "FORBIDDEN", 403)
    /\ slots = PreSlots /\ bookings = PreRows

\* C14: a cancel by the owner of a CONFIRMED booking whose slot starts one
\* hour or less from now, exactly one hour included, is rejected with 400 and
\* changes nothing; it succeeds only when the slot starts strictly more than
\* one hour from now.
C14_WindowBoundary ==
  \A c \in DoneCancels :
    (~BookingMissing(c) /\ ~NotOwner(c) /\ ~AlreadyCancelled(c)) =>
      /\ TicksUntilStart(c) <= OneHour =>
           (Got(c, "TOO_LATE", 400) /\ slots = PreSlots /\ bookings = PreRows)
      /\ calls[c].resp = 200 => TicksUntilStart(c) > OneHour

---------------------------------------------------------------------------
(* Properties of the deletion runs *)

\* C15: no step of book, cancel or deleteSlot removes a booking row.
C15_BookingsNeverRemoved ==
  [][\A b \in bookings : \E b2 \in bookings' : b2.id = b.id]_vars

\* C16: a slot row is removed only while it is AVAILABLE and has no CONFIRMED
\* booking, and a deleteSlot call of the host that finds the slot BOOKED is
\* rejected with 409.
C16_OnlyAvailableRemoved ==
  [][ /\ \A s \in SlotIds :
          (Present(slots[s]) /\ ~Present(slots'[s]))
            => (slots[s].status = "AVAILABLE" /\ Confirmed(bookings, s) = {})
      /\ \A c \in Calls :
          ( /\ Free(c) /\ ncalls' = ncalls + 1 /\ calls'[c].kind = "delete" /\ calls'[c] # calls[c]
            /\ Present(slots[calls'[c].target])
            /\ slots[calls'[c].target].hostId = calls'[c].userId
            /\ slots[calls'[c].target].status = "BOOKED" )
          => (calls'[c].result = "SLOT_BOOKED" /\ calls'[c].resp = 409 /\ slots' = slots)
    ]_vars

---------------------------------------------------------------------------
(* Properties of the rate limiter *)

Answered == last.pc = "done"

\* C17: while no call to the counter store has failed, the 1st to 10th
\* requests the store counts for a caller inside one window are permitted
\* and report remaining 9, 8, ..., 0; the 11th and every later one is denied
\* and reports remaining 0.
C17_TenPerWindow ==
  (Answered /\ nfail = 0) =>
    /\ last.n \in 1..maxRequests =>
         (last.answer = "next" /\ last.remaining = maxRequests - last.n)
    /\ last.n > maxRequests =>
         (last.answer = "429" /\ last.remaining = 0)

\* The 11th request of a window is denied, in a window that is not the
\* caller's first.
C17_Witness ==
  /\ Answered /\ nfail = 0
  /\ last.n = maxRequests + 1 /\ last.answer = "429" /\ last.remaining = 0
  /\ hist[last.caller].start > 0

\* C18: the answer and the remaining a caller gets are those of a store that
\* has seen this caller's requests only.
C18_CallersIndependent ==
  Answered =>
    /\ last.answer = (IF last.failed THEN OnStoreError ELSE last.shAnswer)
    /\ last.remaining = last.shRemaining

\* A caller is permitted with requests to spare while the counter of another
\* caller is over the limit.
C18_Witness ==
  /\ Answered /\ ~last.failed
  /\ last.answer = "next" /\ last.remaining > 0
  /\ \E u \in RlCallers :
       /\ u # last.caller
       /\ Live(redis, RateLimitKey(u), rlNow)
       /\ redis[RateLimitKey(u)].count > maxRequests

\* C19: a request during which a call to the counter store failed is
\* permitted and passed on.
C19_FailOpen ==
  (Answered /\ last.failed) => last.answer = "next"

\* The TTL read failed for a request whose count is over the limit; the
\* request was passed on.
C19_Witness ==
  Answered /\ last.failed /\ last.count > maxRequests /\ last.answer = "next"

\* C20: every counter whose value is at least 1 carries a TTL once the
\* request that created it has left the middleware, also when the store
\* failed between the increment and the expire of that request; so it expires
\* within one window and the caller is permitted again.
C20_CounterHasTtl ==
  \A u \in RlCallers :
    ( /\ Live(redis, RateLimitKey(u), rlNow)
      /\ \A r \in RlReqs : ~(reqs[r].caller = u /\ reqs[r].pc = "expire") )
    => redis[RateLimitKey(u)].expireAt # -1

---------------------------------------------------------------------------
(* C21: every response to a booking request carries limit, remaining and
   resetAt, whatever the outcome: a request that has left the middleware,
   passed on or denied, has the X-RateLimit headers set. *)

C21_HeadersOnEveryResponse == Answered => last.remaining >= 0

---------------------------------------------------------------------------
(* C22: every POST /api/bookings request is counted by the limiter before it
   reaches the controller: the requests that reached createBooking are never
   more than the requests that entered the limiter. *)

C22_CountedBeforeController == ncalls <= nreqs

---------------------------------------------------------------------------
(* C23: in queue mode, when the caller's wait times out before the job has
   finished, the caller is answered with the timeout rejection and the job is
   not cancelled: the worker still executes it, exactly once, and a booking
   it admits is committed. *)

TimeoutStatus == errorHandler("TIMEOUT")

\* The caller of c has been answered with the timeout, the job is not finished.
TimedOutPending(c) ==
  /\ calls[c].kind = "book"
  /\ calls[c].pc \in {"queued", "committed"} \cup InTx
  /\ calls[c].resp = TimeoutStatus

\* The job of c has run to its end, once; the caller's answer is still the
\* timeout; the booking the job reports is in the store.
TimedOutExecuted(c) ==
  /\ calls[c].kind = "book"
  /\ calls[c].pc = "done"
  /\ calls[c].resp = TimeoutStatus
  /\ calls[c].runs = 1
  /\ calls[c].result # ""
  /\ calls[c].result = "OK" =>
        \E b \in bookings : /\ b.id = calls[c].bookingId
                            /\ b.userId = calls[c].userId
                            /\ b.slotId = calls[c].target

C23_TimedOutJobStillRuns == \A c \in Calls : TimedOutPending(c) ~> TimedOutExecuted(c)

\* A job whose caller timed out while it was still queued has booked the slot.
C23_Witness ==
  \E c \in Calls : /\ TimedOutExecuted(c)
                   /\ calls[c].result = "OK"
                   /\ \E b \in bookings : b.id = calls[c].bookingId /\ b.status = "CONFIRMED"

---------------------------------------------------------------------------
(* C24: a violation of a uniqueness constraint of the store is reported to
   the caller as Conflict, the class of the application-level rejections: a
   book call whose insert was refused by the unique index is answered 409. *)

C24_UniqueViolationIsConflict ==
  \A c \in DoneBooks :
    calls[c].result = "P2002" => calls[c].resp = AppErrorStatus("SLOT_UNAVAILABLE")

---------------------------------------------------------------------------
(* C25: a book call that loses a race through a serialization failure of the
   store is answered with Conflict and never with Internal, in direct mode
   and in queue mode. *)

SerializationErrors == {"P2034", "P2010_40001"}

C25_SerializationFailureIsConflict ==
  \A c \in DoneBooks :
    calls[c].result \in SerializationErrors => calls[c].resp = AppErrorStatus("SLOT_UNAVAILABLE")

---------------------------------------------------------------------------
(* C26: each book request causes at most one execution of the admission
   transaction, in direct mode and in queue mode: no call has opened more
   than one, a call that is answered has opened exactly one, and the answer
   is the status of the result of that execution. *)

---------------------------------------------------------------------------
(* C27: each of the three layers prevents a double booking on its own: with
   one layer in place and the other two removed, no two CONFIRMED bookings
   of one slot are ever committed. *)

DoubleBooked ==
  \E a, b \in bookings :
    a.id # b.id /\ a.slotId = b.slotId /\ a.status = "CONFIRMED" /\ b.status = "CONFIRMED"

C27_EachLayerAlone == ~DoubleBooked

\* C27 as amended: the status check alone and the unique index alone each
\* prevent a double booking; the row lock alone is not in the statement.
C27_CheckAloneIndexAlone == layers # {"lock"} => ~DoubleBooked

\* The one layer in place has refused a book call on a slot that holds a
\* CONFIRMED booking.
C27_Witness ==
  \E c \in DoneBooks :
    /\ Confirmed(bookings, calls[c].target) # {}
    /\ \/ layers = {"check"} /\ calls[c].result = "SLOT_UNAVAILABLE"
       \/ layers = {"index"} /\ calls[c].result = "P2002"

---------------------------------------------------------------------------
(* C28: a book call on slot A is never made to wait for, and is never
   rejected because of, a concurrent in-flight book call by another user on a
   different slot B. *)

\* Book calls of two users on two slots
OtherUserOtherSlot(c, d) ==
  /\ c # d
  /\ calls[c].kind = "book" /\ calls[d].kind = "book"
  /\ calls[c].userId # calls[d].userId
  /\ calls[c].target # calls[d].target

\* Call c cannot go on before call d has finished: d holds the row lock c
\* waits for, or d occupies the worker while c is queued.
WaitsFor(c, d) ==
  \/ calls[c].pc = "waiting" /\ lock[calls[c].target] = d
  \/ calls[c].pc = "queued" /\ d \in active

NoCrossSlotWait ==
  \A c, d \in Calls : OtherUserOtherSlot(c, d) => ~WaitsFor(c, d)

\* A call that the store would have admitted when it was issued and that was
\* rejected all the same has met a booking of its own slot or of its own user.
NoCrossSlotRejection ==
  \A c \in DoneBooks :
    calls[c].elig /\ calls[c].result # "OK" =>
      \E b \in bookings : b.slotId = calls[c].target \/ b.userId = calls[c].userId

---------------------------------------------------------------------------
(* C29: in every reachable state no CONFIRMED booking belongs to the host of
   its own slot; a book call by the slot's host is always rejected with
   InvalidRequest (400) and changes nothing. *)

NoHostBooking ==
  \A b \in bookings : b.status = "CONFIRMED" => slots[b.slotId].hostId # b.userId

HostCalls == {c \in DoneBooks : ~SlotMissing(c) /\ CallerIsHost(c)}

C29_HostRejectedInvalidRequest ==
  /\ NoHostBooking
  /\ \A c \in HostCalls :
       /\ calls[c].resp = AppErrorStatus("OWN_SLOT")
       /\ slots = PreSlots /\ bookings = PreRows

\* C29 as amended: the host's call is always rejected and changes nothing;
\* the rejection is InvalidRequest (400) when the slot is AVAILABLE and
\* Conflict (409) when it is not.
C29_HostAlwaysRejected ==
  /\ NoHostBooking
  /\ \A c \in HostCalls :
       /\ calls[c].resp = IF SlotNotAvailable(c) THEN AppErrorStatus("SLOT_UNAVAILABLE")
                                                 ELSE AppErrorStatus("OWN_SLOT")
       /\ calls[c].result # "OK"
       /\ slots = PreSlots /\ bookings = PreRows

\* The host has asked for its own slot, AVAILABLE and in the future, and was
\* refused by the own-slot check.
C29_Witness ==
  \E c \in HostCalls :
    /\ ~SlotNotAvailable(c) /\ ~SlotNotFuture(c)
    /\ Got(c, "OWN_SLOT", 400)

---------------------------------------------------------------------------
(* C30: no booking is ever created for a slot whose start time is not
   strictly later than the time of the admission check; a book call on a slot
   with startTime <= now, equality included, is rejected with
   InvalidRequest (400). *)

\* Every call that passed the checks did so strictly before the start of its
\* slot, and only such a call has created a booking.
NoBookingFromStartOn ==
  \A c \in Books :
    (calls[c].passed \/ calls[c].result = "OK") =>
      PreSlots[calls[c].target].startTime > calls[c].at

StartedSlotCalls == {c \in DoneBooks : ~SlotMissing(c) /\ SlotNotFuture(c)}

C30_StartedSlotInvalidRequest ==
  /\ NoBookingFromStartOn
  /\ \A c \in StartedSlotCalls : calls[c].resp = AppErrorStatus("SLOT_IN_PAST")

\* C30 as amended: the call is always rejected; the rejection is
\* InvalidRequest (400) when the slot is AVAILABLE and Conflict (409) when it
\* is not.
C30_StartedSlotRejected ==
  /\ NoBookingFromStartOn
  /\ \A c \in StartedSlotCalls :
       /\ calls[c].result # "OK"
       /\ calls[c].resp = IF SlotNotAvailable(c) THEN AppErrorStatus("SLOT_UNAVAILABLE")
                                                 ELSE AppErrorStatus("SLOT_IN_PAST")

\* The check ran at the very start time of an AVAILABLE slot and refused.
C30_Witness ==
  \E c \in StartedSlotCalls :
    /\ ~SlotNotAvailable(c)
    /\ PreSlots[calls[c].target].startTime = calls[c].at
    /\ Got(c, "SLOT_IN_PAST", 400)

---------------------------------------------------------------------------
(* Properties of slot creation *)

RangesOverlap(r1, r2) == r1.startTime < r2.endTime /\ r2.startTime < r1.endTime

\* C31: no two slots of the same host have overlapping ranges
\* [startTime, endTime), also when concurrent createSlot calls of the host
\* both pass the overlap check before either insert.
C31_NoOverlappingSlots ==
  \A r1 \in slotRows, r2 \in slotRows :
    (r1.id # r2.id /\ r1.hostId = r2.hostId) => ~RangesOverlap(r1, r2)

\* Two calls of one host with overlapping ranges both passed the check; one
\* has inserted its row, the other was refused by the constraint.
C31_Witness ==
  \E k \in Creators, j \in Creators :
    /\ k # j
    /\ creates[k].pc = "done" /\ creates[k].result = "OK"
    /\ creates[j].pc = "done" /\ creates[j].result \in ExclusionErrors
    /\ creates[k].hostId = creates[j].hostId
    /\ RangesOverlap(creates[k], creates[j])
    /\ \E r \in slotRows : r.id = creates[k].id

\* Some slot of the host that is not CANCELLED has a range [s, e) with
\* s < E and e > S.
IntersectsActive(rows, hostId, S, E) ==
  \E r \in rows :
    r.hostId = hostId /\ r.status # "CANCELLED" /\ r.startTime < E /\ r.endTime > S

\* C39: for every range S < E and every host, hasOverlap is true exactly when
\* a slot of the host that is not CANCELLED intersects [S, E); a slot that
\* ends at S or starts at E is not reported, and on a table without CANCELLED
\* slots hasOverlap and the exclusion constraint agree.
C39_HasOverlapIsIntersection ==
  \A h \in SlotCallers, S \in SlotTimes, E \in SlotTimes :
    S < E =>
      /\ hasOverlap(slotRows, h, S, E) <=> IntersectsActive(slotRows, h, S, E)
      /\ (\A r \in slotRows : hasOverlap({r}, h, S, E) => r.startTime # E /\ r.endTime # S)
      /\ (\A r \in slotRows : r.status # "CANCELLED") =>
            (hasOverlap(slotRows, h, S, E) <=> slot_no_overlap(slotRows, h, S, E))

\* One call was rejected by the overlap check and another created a slot
\* back to back with an existing slot of the same host.
C39_Witness ==
  /\ \E k \in Creators : creates[k].pc = "done" /\ creates[k].result = "OVERLAP"
  /\ \E j \in Creators :
       /\ creates[j].pc = "done" /\ creates[j].result = "OK"
       /\ \E r \in slotRows :
            /\ r.hostId = creates[j].hostId /\ r.status # "CANCELLED"
            /\ r.endTime = creates[j].startTime \/ r.startTime = creates[j].endTime

---------------------------------------------------------------------------
(* Properties of overlapping cancel calls *)

ConfirmedOn(s) == {b \in bookings : b.slotId = s /\ b.status = "CONFIRMED"}

\* C32: in every committed state a slot is BOOKED exactly when it has exactly
\* one CONFIRMED booking; an AVAILABLE slot has no CONFIRMED booking, also
\* when two cancel calls for one booking overlap a book call of another user
\* for the slot.
C32_BookedIffOneConfirmed ==
  \A s \in SlotIds :
    /\ slots[s].status = "BOOKED" <=> Cardinality(ConfirmedOn(s)) = 1
    /\ slots[s].status = "AVAILABLE" => ConfirmedOn(s) = {}

\* Two cancel calls for one booking both passed their checks, one has
\* committed, and a book call of another user for the slot has been answered
\* while the second cancel was still open.
C32_Witness ==
  \E c \in Calls, d \in Calls :
    /\ c # d
    /\ calls[c].kind = "cancel" /\ calls[c].passed
    /\ calls[c].pc \in {"cancelling", "cancelLocked"}
    /\ calls[d].kind = "book" /\ calls[d].pc = "done"
    /\ \E b \in bookings :
         /\ b.id = calls[c].bookingId /\ b.status = "CANCELLED"
         /\ calls[d].target = b.slotId /\ calls[d].userId # b.userId
         /\ slots[b.slotId].status = "AVAILABLE"

CancelSucceeded(c) ==
  calls[c].kind = "cancel" /\ calls[c].pc = "done" /\ calls[c].resp = 200

\* C33: among the cancel calls of the owner for one booking, sequential or
\* concurrent, at most one succeeds; no two answered calls for the same
\* booking both report success.
C33_AtMostOneCancelSucceeds ==
  \A c \in Calls, d \in Calls :
    (c # d /\ CancelSucceeded(c) /\ CancelSucceeded(d)) =>
      calls[c].bookingId # calls[d].bookingId

BookingIdsOf(rows) == {b.id : b \in rows}

\* A step keeps userId and slotId of every booking row, never takes a
\* CANCELLED row back to CONFIRMED, and a row that appears is CONFIRMED under
\* an identifier no row had before.
BookingRowsStep ==
  /\ \A b \in bookings : \A b2 \in bookings' :
       b2.id = b.id =>
         /\ b2.userId = b.userId /\ b2.slotId = b.slotId
         /\ b.status = "CANCELLED" => b2.status = "CANCELLED"
  /\ \A b2 \in bookings' :
       b2.id \notin BookingIdsOf(bookings) => b2.status = "CONFIRMED" /\ b2.id >= nextId
  /\ nextId' >= nextId

\* C34: a booking's status only moves from CONFIRMED to CANCELLED, a
\* CANCELLED booking is never CONFIRMED again, its userId and slotId never
\* change, and a booking after a cancellation is a new row.
C34_StatusOnlyToCancelled == [][BookingRowsStep]_vars

\* A cancelled booking next to a booking that a later call created.
C34_Witness ==
  \E b \in bookings, b2 \in bookings :
    /\ b.status = "CANCELLED" /\ b2.status = "CONFIRMED" /\ b2.id > b.id
    /\ \E c \in Calls : CancelSucceeded(c) /\ calls[c].bookingId = b.id
    /\ \E d \in Calls : calls[d].kind = "book" /\ calls[d].pc = "done"
                         /\ calls[d].resp = 201 /\ calls[d].bookingId = b2.id

---------------------------------------------------------------------------
(* Properties of the answer of a book call *)

\* The CONFIRMED booking that the transaction of call c committed.
CreatedConfirmed(c) ==
  \E b \in bookings :
    /\ b.id = calls[c].bookingId /\ b.status = "CONFIRMED"
    /\ b.userId = calls[c].userId /\ b.slotId = calls[c].target

\* The caller of c has an answer and it is not success.
AnsweredNoSuccess(c) ==
  calls[c].kind = "book" /\ calls[c].resp \notin {0, 201}

---------------------------------------------------------------------------
(* Properties of queue mode against direct mode *)

\* What createBooking returns for user u and slot s when it runs alone on the
\* committed store <<tbl, rows>>.
AloneResult(u, s, tbl, rows) ==
  LET v == Validate(u, tbl[s], rows, tbl, now)
  IN IF v # "OK" THEN v
     ELSE IF UniqueViolation(rows, s) THEN "P2002"
     ELSE "OK"

\* The store after createBooking has run alone with result r.
AloneStore(u, s, tbl, rows, r, id) ==
  IF r = "OK"
    THEN <<[tbl EXCEPT ![s].status = "BOOKED"],
           rows \cup {[id |-> id, slotId |-> s, userId |-> u, status |-> "CONFIRMED"]}>>
    ELSE <<tbl, rows>>

\* C36: for book requests issued one after the other, queue mode gives the
\* caller the answer of direct mode, the status the direct controller and the
\* error handler give the result of createBooking run alone on the store
\* the request found, and leaves the store direct mode leaves; also when
\* createBooking fails with a storage error.
C36_QueueAnswersAsDirect ==
  \A c \in Calls :
    (calls[c].kind = "book" /\ calls[c].pc = "done") =>
      LET r == AloneResult(calls[c].userId, calls[c].target, pre[1], pre[2])
      IN /\ calls[c].resp = ControllerStatus("book", r)
         /\ <<slots, bookings>> =
              AloneStore(calls[c].userId, calls[c].target, pre[1], pre[2], r, nextId - 1)

---------------------------------------------------------------------------
(* Properties of concurrent requests of one caller to the limiter *)

\* Request r holds the count its increment returned.
Incremented(r) == reqs[r].pc \in {"expire", "ttl"}

\* C37: with the counter store reachable, requests of one caller that are in
\* the middleware together never hold the same count, and a permitted request
\* is one of the first maxRequests the store counted in its window: at most
\* maxRequests requests of a window are permitted under every interleaving.
C37_AtMostTenPermitted ==
  /\ \A r \in RlReqs, q \in RlReqs :
       (r # q /\ Incremented(r) /\ Incremented(q) /\ reqs[r].caller = reqs[q].caller)
         => reqs[r].count # reqs[q].count
  /\ \A r \in RlReqs : Incremented(r) => reqs[r].count = reqs[r].n
  /\ (Answered /\ last.answer = "next") => (last.count = last.n /\ last.n <= maxRequests)

\* Two requests of one caller are in the middleware together with the counts
\* maxRequests and maxRequests + 1.
C37_Witness ==
  \E r \in RlReqs, q \in RlReqs :
    /\ r # q /\ Incremented(r) /\ Incremented(q)
    /\ reqs[r].caller = reqs[q].caller
    /\ reqs[r].count = maxRequests /\ reqs[q].count = maxRequests + 1

\* C38: the end of a caller's window is fixed by the first request of the
\* window: once that request has left the middleware, the caller's counter
\* expires one window length after it, however many requests, permitted or
\* denied, have incremented the counter since; a caller who keeps retrying is
\* locked out no longer than that.
C38_WindowEndFixedByFirst ==
  \A u \in RlCallers :
    ( /\ Live(redis, RateLimitKey(u), rlNow)
      /\ \A r \in RlReqs : ~(reqs[r].caller = u /\ reqs[r].pc = "expire") )
    => redis[RateLimitKey(u)].expireAt = hist[u].start + windowSeconds

\* A request is denied in the second half of its window, and the counter
\* still expires one window length after the first request.
C38_Witness ==
  /\ Answered /\ last.answer = "429"
  /\ rlNow > hist[last.caller].start
  /\ Live(redis, RateLimitKey(last.caller), rlNow)
  /\ last.ttl = hist[last.caller].start + windowSeconds - rlNow
  /\ last.ttl < windowSeconds

---------------------------------------------------------------------------
(* Properties of the return of a book call *)

\* The caller of c is waiting for its answer.
AwaitingAnswer(c) ==
  calls[c].kind = "book" /\ calls[c].pc \notin {"idle", "done"} /\ calls[c].resp = 0

HasAnswer(c) == calls[c].kind = "book" /\ calls[c].resp # 0

\* Between two requests the answer a caller has received does not change,
\* and an answer that arrives is the timeout or the status of the result of
\* the caller's own job.
OneAnswerStep ==
  \A c \in Calls :
    /\ (HasAnswer(c) /\ ncalls' = ncalls) => calls'[c].resp = calls[c].resp
    /\ (AwaitingAnswer(c) /\ calls'[c].resp # 0) =>
         \/ mode = "queue" /\ calls'[c].resp = TimeoutStatus /\ calls'[c].pc # "done"
         \/ /\ calls'[c].pc = "done"
            /\ calls'[c].resp = (IF mode = "queue" THEN processBookingJob(calls'[c].result)
                                                  ELSE ControllerStatus("book", calls'[c].result))
            /\ calls'[c].resp = 201 =>
                 \E b \in bookings' : /\ b.id = calls'[c].bookingId
                                      /\ b.userId = calls[c].userId
                                      /\ b.slotId = calls[c].target

\* C40: every book call eventually returns a response to its caller, in
\* direct mode and in queue mode, also when the worker never takes a job; it
\* returns one response only, and in queue mode that response is the timeout
\* or the result of the caller's own job.
C40_EveryCallReturnsOnce ==
  /\ \A c \in Calls : AwaitingAnswer(c) ~> HasAnswer(c)
  /\ [][OneAnswerStep]_vars

\* Queue mode: a caller has been answered with the timeout while its job has
\* never been taken, and another caller has received the result of its job.
C40_Witness ==
  \E c \in Calls, d \in Calls :
    /\ mode = "queue"
    /\ calls[c].kind = "book" /\ calls[c].pc = "queued" /\ calls[c].resp = TimeoutStatus
    /\ calls[d].kind = "book" /\ calls[d].pc = "done" /\ calls[d].resp = 201

====
